---------------------------- MODULE Spec2Model ----------------------------
(***************************************************************************)
(* A model of convert_acc: the per-sensor Conversion pipeline that turns a *)
(* raw count series into acceleration, velocity and displacement series    *)
(* and their peak statistics, and the batch run that drives it.            *)
(*                                                                         *)
(* Numbers.  The code computes in binary floating point; the model         *)
(* computes the same expressions in exact arithmetic.  A real number is a  *)
(* record [m, e2, e5, eg, d] standing for                                  *)
(*        m * 2^e2 * 5^e5 * GravityOdd^eg / d                              *)
(* in canonical form (RNorm), so that two reals are equal exactly when     *)
(* their records are.  Floating-point rounding error is not modelled.      *)
(*                                                                         *)
(* Text.  A string the code inspects character by character (a sensor      *)
(* code) is a sequence of one-character strings.                           *)
(***************************************************************************)
EXTENDS Integers, Sequences, FiniteSets, TLC

---------------------------------------------------------------------------
(* Integer helpers *)

Abs(x) == IF x < 0 THEN -x ELSE x

Sgn(x) == IF x < 0 THEN -1 ELSE IF x = 0 THEN 0 ELSE 1

Min(a, b) == IF a <= b THEN a ELSE b

Max(a, b) == IF a >= b THEN a ELSE b

RECURSIVE Gcd(_, _)
Gcd(a, b) == IF b = 0 THEN a ELSE Gcd(b, a % b)

Lcm(a, b) == (a \div Gcd(a, b)) * b

RECURSIVE Pow(_, _)
Pow(b, n) == IF n <= 0 THEN 1 ELSE b * Pow(b, n - 1)

\* How many times p divides n (n > 0).
RECURSIVE Mult(_, _)
Mult(n, p) == IF n % p = 0 THEN 1 + Mult(n \div p, p) ELSE 0

\* k copies of x.
RECURSIVE Rep(_, _)
Rep(x, k) == IF k <= 0 THEN <<>> ELSE <<x>> \o Rep(x, k - 1)

---------------------------------------------------------------------------
(* Exact reals *)

\* 9.80665 = 196133 / 20000: the odd, 5-free part of the factor in
\* convertGToMetric, kept as a symbolic factor of a real.
GravityOdd == 196133

RZero == [m |-> 0, e2 |-> 0, e5 |-> 0, eg |-> 0, d |-> 1]

\* The canonical record of m * 2^e2 * 5^e5 * GravityOdd^eg / d  (d > 0).
RNorm(m, e2, e5, eg, d) ==
    IF m = 0 THEN RZero
    ELSE LET g  == Gcd(Abs(m), d)
             a  == Abs(m) \div g
             b  == d \div g
             a2 == Mult(a, 2)
             a5 == Mult(a \div Pow(2, a2), 5)
             ag == Mult((a \div Pow(2, a2)) \div Pow(5, a5), GravityOdd)
             b2 == Mult(b, 2)
             b5 == Mult(b \div Pow(2, b2), 5)
             bg == Mult((b \div Pow(2, b2)) \div Pow(5, b5), GravityOdd)
         IN  [m  |-> Sgn(m) * (((a \div Pow(2, a2)) \div Pow(5, a5)) \div Pow(GravityOdd, ag)),
              e2 |-> e2 + a2 - b2,
              e5 |-> e5 + a5 - b5,
              eg |-> eg + ag - bg,
              d  |-> ((b \div Pow(2, b2)) \div Pow(5, b5)) \div Pow(GravityOdd, bg)]

\* The integer n, and the decimal literal n * 10^-k (2.5 is RDec(25, 1)).
RInt(n) == RNorm(n, 0, 0, 0, 1)

RDec(n, k) == RNorm(n, -k, -k, 0, 1)

RNeg(a) == [a EXCEPT !.m = -a.m]

RAbs(a) == [a EXCEPT !.m = Abs(a.m)]

RSign(a) == Sgn(a.m)

RMul(a, b) ==
    IF a.m = 0 \/ b.m = 0 THEN RZero
    ELSE LET g1 == Gcd(Abs(a.m), b.d)
             g2 == Gcd(Abs(b.m), a.d)
         IN  RNorm((a.m \div g1) * (b.m \div g2),
                   a.e2 + b.e2, a.e5 + b.e5, a.eg + b.eg,
                   (a.d \div g2) * (b.d \div g1))

\* 1 / a  (a # 0).
RInv(a) == RNorm(Sgn(a.m) * a.d, -a.e2, -a.e5, -a.eg, Abs(a.m))

RDiv(a, b) == RMul(a, RInv(b))

RAdd(a, b) ==
    IF a.m = 0 THEN b
    ELSE IF b.m = 0 THEN a
    ELSE LET e2 == Min(a.e2, b.e2)
             e5 == Min(a.e5, b.e5)
             eg == Min(a.eg, b.eg)
             d  == Lcm(a.d, b.d)
             am == a.m * Pow(2, a.e2 - e2) * Pow(5, a.e5 - e5)
                       * Pow(GravityOdd, a.eg - eg) * (d \div a.d)
             bm == b.m * Pow(2, b.e2 - e2) * Pow(5, b.e5 - e5)
                       * Pow(GravityOdd, b.eg - eg) * (d \div b.d)
         IN  RNorm(am + bm, e2, e5, eg, d)

RSub(a, b) == RAdd(a, RNeg(b))

RLess(a, b) == RSign(RSub(a, b)) < 0

RLeq(a, b) == RSign(RSub(a, b)) <= 0

---------------------------------------------------------------------------
(* Non-negative integers of any size, as little-endian sequences of limbs  *)
(* in base LimbBase: what round(x, 4) needs to scale an exact real.        *)

LimbBase == 100 * 100

RECURSIVE BigOfInt(_)
BigOfInt(n) == IF n < LimbBase THEN <<n>>
               ELSE <<n % LimbBase>> \o BigOfInt(n \div LimbBase)

RECURSIVE BigMulCarry(_, _, _)
BigMulCarry(x, s, c) ==
    IF x = <<>> THEN (IF c = 0 THEN <<>> ELSE BigOfInt(c))
    ELSE LET t == Head(x) * s + c
         IN  <<t % LimbBase>> \o BigMulCarry(Tail(x), s, t \div LimbBase)

\* x * s for a factor 0 < s < 200000.
BigMulSmall(x, s) == BigMulCarry(x, s, 0)

RECURSIVE BigAddCarry(_, _, _)
BigAddCarry(x, y, c) ==
    IF x = <<>> /\ y = <<>> THEN (IF c = 0 THEN <<>> ELSE <<c>>)
    ELSE LET hx == IF x = <<>> THEN 0 ELSE Head(x)
             hy == IF y = <<>> THEN 0 ELSE Head(y)
             t  == hx + hy + c
         IN  <<t % LimbBase>>
               \o BigAddCarry(IF x = <<>> THEN <<>> ELSE Tail(x),
                              IF y = <<>> THEN <<>> ELSE Tail(y),
                              t \div LimbBase)

BigAdd(x, y) == BigAddCarry(x, y, 0)

\* [q, r]: quotient and remainder of x by a divisor 0 < s < 200000.
RECURSIVE BigDivSmall(_, _)
BigDivSmall(x, s) ==
    IF x = <<>> THEN [q |-> <<>>, r |-> 0]
    ELSE LET hi  == BigDivSmall(Tail(x), s)
             cur == hi.r * LimbBase + Head(x)
         IN  [q |-> <<cur \div s>> \o hi.q, r |-> cur % s]

RECURSIVE BigMulAll(_, _)
BigMulAll(x, fs) == IF fs = <<>> THEN x
                    ELSE BigMulAll(BigMulSmall(x, Head(fs)), Tail(fs))

\* x divided by the product of fs, rounded down; exact: nothing was dropped.
RECURSIVE BigDivAll(_, _)
BigDivAll(x, fs) ==
    IF fs = <<>> THEN [q |-> x, exact |-> TRUE]
    ELSE LET one  == BigDivSmall(x, Head(fs))
             rest == BigDivAll(one.q, Tail(fs))
         IN  [q |-> rest.q, exact |-> rest.exact /\ one.r = 0]

RECURSIVE BigToInt(_)
BigToInt(x) == IF x = <<>> THEN 0 ELSE Head(x) + LimbBase * BigToInt(Tail(x))


\* p^k (k >= 0) as a sequence of factors below 200000, c powers a factor.
PowFactors(p, k, c) ==
    Rep(Pow(p, c), k \div c) \o (IF k % c = 0 THEN <<>> ELSE <<Pow(p, k % c)>>)

\* round(x, 4): the multiple of 10^-4 nearest to x, an exact tie going to the
\* even multiple.
Round4(a) ==
    LET p2  == a.e2 + 4
        p5  == a.e5 + 4
        num == PowFactors(2, Max(p2, 0), 15) \o PowFactors(5, Max(p5, 0), 7)
                 \o PowFactors(GravityOdd, Max(a.eg, 0), 1)
        den == <<a.d>> \o PowFactors(2, Max(-p2, 0), 15) \o PowFactors(5, Max(-p5, 0), 7)
                 \o PowFactors(GravityOdd, Max(-a.eg, 0), 1)
        P   == BigMulAll(BigOfInt(Abs(a.m)), num)
        Q   == BigMulAll(<<1>>, den)
        N   == BigAdd(BigMulSmall(P, 2), Q)
        dv  == BigDivAll(N, <<2>> \o den)
        up  == BigToInt(dv.q)
        k   == IF dv.exact /\ up % 2 = 1 THEN up - 1 ELSE up
    IN  RDec(Sgn(a.m) * k, 4)

---------------------------------------------------------------------------
(* Python and pandas values *)

\* None, as the value of an attribute or of a numeric cell.
None == [none |-> TRUE]

\* None in the timestamp column, whose other cells are tokens, sequences of
\* characters: a sequence that is no token.
NoneStr == <<"None">>

\* NaN, the fill value of a reindexed column.
NaN == [nan |-> TRUE]

IsNaN(v) == DOMAIN v = {"nan"}

\* 'ch in s' for a one-character ch.
Contains(s, ch) == \E i \in 1..Len(s) : s[i] = ch

\* 'x in list'.
InList(x, list) == \E i \in 1..Len(list) : list[i] = x

\* rows 'before' to 'after' of a column (0-based labels, both ends kept).
Truncate(col, before, after) ==
    LET lo == before + 1
        hi == Min(after + 1, Len(col))
    IN  IF lo > hi THEN <<>> ELSE SubSeq(col, lo, hi)

---------------------------------------------------------------------------
(* Sensor codes *)

SENSOR_CODES_WITH_CHANNELS ==
    << <<"N", "3", "9", "x">>,
       <<"N", "3", "9", "y">>,
       <<"N", "3", "9", "z">>,
       <<"S", "3", "9", "x">>,
       <<"S", "3", "9", "y">>,
       <<"S", "3", "9", "z">>,
       <<"N", "2", "4", "x">>,
       <<"N", "2", "4", "y">>,
       <<"N", "2", "4", "z">>,
       <<"S", "2", "4", "x">>,
       <<"S", "2", "4", "y">>,
       <<"S", "2", "4", "z">>,
       <<"N", "1", "2", "x">>,
       <<"N", "1", "2", "y">>,
       <<"N", "1", "2", "z">>,
       <<"S", "1", "2", "x">>,
       <<"S", "1", "2", "y">>,
       <<"S", "1", "2", "z">>,
       <<"B", "4", "F", "x">>,
       <<"B", "4", "F", "y">>,
       <<"B", "4", "F", "z">>,
       <<"F", "F", "N">>,
       <<"F", "F", "W">>,
       <<"F", "F", "Z">> >>

---------------------------------------------------------------------------
(* Numeric helpers of the Conversion class *)

RECURSIVE RSum(_)
RSum(x) == IF x = <<>> THEN RZero ELSE RAdd(Head(x), RSum(Tail(x)))

\* scipy.signal.detrend(x, type='constant'): x minus its mean.
Detrend(x) ==
    IF x = <<>> THEN <<>>
    ELSE LET mean == RDiv(RSum(x), RInt(Len(x)))
         IN  [i \in 1..Len(x) |-> RSub(x[i], mean)]

\* One output sample of scipy.signal.lfilter(b, a, x), given the earlier
\* outputs y: (sum b[k] x[n-k] - sum a[k] y[n-k], k >= 1) / a[0].
RECURSIVE TapSum(_, _, _, _)
TapSum(c, v, n, k) ==
    IF k > Len(c) THEN RZero
    ELSE RAdd(IF n - (k - 1) >= 1 /\ n - (k - 1) <= Len(v)
                 THEN RMul(c[k], v[n - (k - 1)]) ELSE RZero,
              TapSum(c, v, n, k + 1))

RECURSIVE LFilterLoop(_, _, _, _)
LFilterLoop(b, a, x, y) ==
    IF Len(y) = Len(x) THEN y
    ELSE LET n   == Len(y) + 1
             out == RDiv(RSub(TapSum(b, x, n, 1), TapSum(a, y, n, 2)), a[1])
         IN  LFilterLoop(b, a, x, Append(y, out))

LFilter(b, a, x) == LFilterLoop(b, a, x, <<>>)

---------------------------------------------------------------------------
(* Size of the model.  The code pads with 500 samples, ignores the first   *)
(* 6000 and cuts at 40000 + 500; a series of that length is beyond an      *)
(* exhaustive search, so the pipeline runs on a reduced geometry with the  *)
(* same shape (pad < ignored < window end).  Every operator takes the      *)
(* geometry as a parameter and is also evaluated at the code's values.     *)

\* Longest raw series.
MaxRaw == 4

\* Pad, ignored head and window of the reduced geometry.
PadLen == 1

IgnoredLen == 2

WindowLen == 3

ModelGeo == [zeroPadLength |-> PadLen, ignoredSamples |-> IgnoredLen,
             window |-> WindowLen]

\* The code's values.
zeroPadLength == 500

ignoredSamples == 6000

windowSamples == 40000

CodeGeo == [zeroPadLength |-> zeroPadLength, ignoredSamples |-> ignoredSamples,
            window |-> windowSamples]

\* Raw counts a series is built from.
CountValues == {-1300, 0, 2100}

\* Sensor codes a Conversion is built for: one with 'F' and one without, and
\* two that are not in the table.
CodeChoices == { <<"B", "4", "F", "x">>, <<"N", "3", "9", "y">>,
                 <<"N", "3", "9", "q">>, <<"F", "F", "x">> }

\* The timestamp token of raw row i, as its characters.
Token(i) == <<"t", ToString(i)>>

---------------------------------------------------------------------------
(* DataFrames: a function from column names to columns of equal length     *)

Rows(d) == Len(d["timestamp"])

\* df[name] = <array of len(df) values>
AssignArray(d, name, col) == (name :> col) @@ d

\* df[name] = <Series labelled 0..n-1>: the values are aligned on the row
\* labels; a frame without rows takes the labels of the series, its other
\* columns filled with NaN.
AssignSeries(d, name, series) ==
    IF Rows(d) = 0 /\ Len(series) > 0
    THEN (name :> series) @@ [c \in DOMAIN d |-> [i \in 1..Len(series) |-> NaN]]
    ELSE (name :> [i \in 1..Rows(d) |->
                     IF i <= Len(series) THEN series[i] ELSE NaN]) @@ d

---------------------------------------------------------------------------
(* The Conversion class *)

lowcut == RDec(5, 2)

highcut == RInt(40)

fs == RInt(100)

order == 2

dt == RDiv(RInt(1), fs)

\* A setSensitivity that falls back to 0.625 for an unknown code instead of
\* raising.
setSensitivityLenient(code) ==
    IF InList(code, SENSOR_CODES_WITH_CHANNELS) /\ Contains(code, "F")
    THEN [raised |-> FALSE, value |-> RDec(125, 2)]
    ELSE [raised |-> FALSE, value |-> RDec(625, 3)]

\* [raised, value]: 1.25, 0.625, or ValueError.
setSensitivity(code) ==
    LET groundFloorSensorCodes ==
            SelectSeq(SENSOR_CODES_WITH_CHANNELS, LAMBDA c : Contains(c, "F"))
        upperFloorSensorCodes ==
            SelectSeq(SENSOR_CODES_WITH_CHANNELS, LAMBDA c : ~Contains(c, "F"))
    IN  IF InList(code, groundFloorSensorCodes)
          THEN [raised |-> FALSE, value |-> RDec(125, 2)]
        ELSE IF InList(code, upperFloorSensorCodes)
          THEN [raised |-> FALSE, value |-> RDec(625, 3)]
        ELSE [raised |-> TRUE, value |-> None]

\* A convertCountToG that multiplies by the sensitivity.
convertCountToGTimes(count, sens) ==
    RMul(RMul(RInt(count), RDiv(RDec(25, 1), RInt(8388608))), sens)

convertCountToG(count, sens) ==
    RMul(RMul(RInt(count), RDiv(RDec(25, 1), RInt(8388608))),
         RDiv(RInt(1), sens))

\* A getZeroPaddedDf that pads the head only.
getHeadPaddedDf(d, columns, padLen) ==
    [column \in columns |->
        IF column = "timestamp"
           THEN [i \in 1..padLen |-> NoneStr] \o d[column]
           ELSE [i \in 1..padLen |-> RZero] \o d[column]]

\* The padded copies of the named columns of d.  The zeros join a float
\* column and are the real 0.
getZeroPaddedDf(d, columns, padLen) ==
    LET zeroPad    == [i \in 1..padLen |-> RZero]
        nullSeries == [i \in 1..padLen |-> NoneStr]
    IN  [column \in columns |->
            IF column = "timestamp"
               THEN nullSeries \o d[column] \o nullSeries
               ELSE zeroPad \o d[column] \o zeroPad]

convertGToMetric(g) == RMul(g, RDec(980665, 5))

\* scipy.signal.butter designs the filter outside this repository.  The
\* model filters with the reference coefficients of test_butterPass rounded
\* to whole numbers, which keeps lfilter's recurrence exact.
butterPass(filterType) ==
    IF filterType = "band"
    THEN [b |-> <<RInt(1), RInt(0), RInt(-1), RInt(0), RInt(1)>>,
          a |-> <<RInt(1), RInt(-1), RInt(-1), RInt(0), RInt(0)>>]
    ELSE [b |-> <<RInt(1), RInt(-2), RInt(1)>>,
          a |-> <<RInt(1), RInt(-2), RInt(1)>>]

butterBandpassFilter(d, inputColumn, outputColumn) ==
    LET c == butterPass("band")
    IN  AssignArray(d, outputColumn, LFilter(c.b, c.a, d[inputColumn]))

butterHighpassFilter(d, inputColumn, outputColumn) ==
    LET c == butterPass("high")
    IN  AssignArray(d, outputColumn, LFilter(c.b, c.a, d[inputColumn]))

\* The loop over zip(inputList, inputList[1:]), pair i being
\* (inputList[i], inputList[i+1]).
RECURSIVE IntegrateLoop(_, _, _)
IntegrateLoop(inputList, i, integratedList) ==
    IF i >= Len(inputList) THEN integratedList
    ELSE LET integrated ==
                 RAdd(RDiv(RMul(dt, RAdd(inputList[i], inputList[i + 1])), RInt(2)),
                      integratedList[Len(integratedList)])
         IN  IntegrateLoop(inputList, i + 1, Append(integratedList, integrated))

\* An integrateSeries by the rectangle rule: dt * x[i] added at each step.
RECURSIVE RectangleLoop(_, _, _)
RectangleLoop(inputList, i, integratedList) ==
    IF i >= Len(inputList) THEN integratedList
    ELSE RectangleLoop(inputList, i + 1,
             Append(integratedList,
                    RAdd(RMul(dt, inputList[i + 1]),
                         integratedList[Len(integratedList)])))

integrateSeriesRectangle(inputSeries) == RectangleLoop(inputSeries, 1, <<RZero>>)

integrateSeries(inputSeries) == IntegrateLoop(inputSeries, 1, <<RZero>>)

\* A removeExtraneousSamples that leaves the row labelled endIndex out.
removeExtraneousHalfOpen(d, geo) ==
    LET endIndex == geo.window + geo.zeroPadLength
    IN  [c \in DOMAIN d |-> Truncate(d[c], geo.ignoredSamples, endIndex - 1)]

removeExtraneousSamples(d, geo) ==
    LET endIndex == geo.window + geo.zeroPadLength
    IN  [c \in DOMAIN d |-> Truncate(d[c], geo.ignoredSamples, endIndex)]

convertMToCm(m) == RMul(m, RInt(100))

\* A column's values that min() and max() see.
Valid(col) == {i \in 1..Len(col) : ~IsNaN(col[i])}

\* A getStats that takes the minimum when the two absolute values are equal.
getStatsTieToMin(d, columnName) ==
    LET col == d[columnName]
    IN  IF Valid(col) = {} THEN [raised |-> TRUE, value |-> <<>>]
        ELSE LET iMin == CHOOSE i \in Valid(col) :
                             /\ \A j \in Valid(col) : RLeq(col[i], col[j])
                             /\ \A j \in Valid(col) : col[j] = col[i] => i <= j
                 iMax == CHOOSE i \in Valid(col) :
                             /\ \A j \in Valid(col) : RLeq(col[j], col[i])
                             /\ \A j \in Valid(col) : col[j] = col[i] => i <= j
                 peakInfo == IF RLeq(RAbs(col[iMax]), RAbs(col[iMin]))
                             THEN <<iMin - 1, col[iMin]>> ELSE <<iMax - 1, col[iMax]>>
             IN  [raised |-> FALSE,
                  value  |-> Append(peakInfo, Round4(peakInfo[2]))]

\* A getStats that reports the last row holding the peak and does not round.
getStatsLastUnrounded(d, columnName) ==
    LET col == d[columnName]
    IN  IF Valid(col) = {} THEN [raised |-> TRUE, value |-> <<>>]
        ELSE LET iMin == CHOOSE i \in Valid(col) :
                             /\ \A j \in Valid(col) : RLeq(col[i], col[j])
                             /\ \A j \in Valid(col) : col[j] = col[i] => j <= i
                 iMax == CHOOSE i \in Valid(col) :
                             /\ \A j \in Valid(col) : RLeq(col[j], col[i])
                             /\ \A j \in Valid(col) : col[j] = col[i] => j <= i
                 peakInfo == IF RLess(RAbs(col[iMax]), RAbs(col[iMin]))
                             THEN <<iMin - 1, col[iMin]>> ELSE <<iMax - 1, col[iMax]>>
             IN  [raised |-> FALSE,
                  value  |-> Append(peakInfo, peakInfo[2])]

\* [raised, value]: <<index, peak, rounded peak>>, or IndexError when the
\* column has no value to take the minimum of.
getStats(d, columnName) ==
    LET col == d[columnName]
    IN  IF Valid(col) = {} THEN [raised |-> TRUE, value |-> <<>>]
        ELSE LET iMin == CHOOSE i \in Valid(col) :
                             /\ \A j \in Valid(col) : RLeq(col[i], col[j])
                             /\ \A j \in Valid(col) : col[j] = col[i] => i <= j
                 iMax == CHOOSE i \in Valid(col) :
                             /\ \A j \in Valid(col) : RLeq(col[j], col[i])
                             /\ \A j \in Valid(col) : col[j] = col[i] => i <= j
                 minPair == <<iMin - 1, col[iMin]>>
                 maxPair == <<iMax - 1, col[iMax]>>
                 peakInfo == IF RLess(RAbs(maxPair[2]), RAbs(minPair[2]))
                             THEN minPair ELSE maxPair
             IN  [raised |-> FALSE,
                  value  |-> Append(peakInfo, Round4(peakInfo[2]))]

---------------------------------------------------------------------------
(* File names.  A name or path is the sequence of its characters.          *)

\* The characters of the paths, in code-point order.
Alphabet == <<".", "/", "0", "1", "2", "3", "4", "5", "6", "7", "8", "9",
              "A", "B", "F", "L", "N", "S", "T", "W", "X", "Y", "Z",
              "d", "m", "q", "t", "w", "x", "y", "z">>

Ord(ch) == CHOOSE i \in 1..Len(Alphabet) : Alphabet[i] = ch

\* ch.islower() and ch.isdigit()
islower(ch) == Ord(ch) > Ord("Z")

isdigit(ch) == Ord("0") <= Ord(ch) /\ Ord(ch) <= Ord("9")

\* s < t for strings: the first place where they differ decides, a proper
\* prefix is the smaller.
StrLess(s, t) ==
    LET n    == Min(Len(s), Len(t))
        diff == {i \in 1..n : s[i] # t[i]}
    IN  IF diff = {} THEN Len(s) < Len(t)
        ELSE LET k == CHOOSE i \in diff : \A j \in diff : i <= j
             IN  Ord(s[k]) < Ord(t[k])

\* The list without its element i.
Remove(list, i) == SubSeq(list, 1, i - 1) \o SubSeq(list, i + 1, Len(list))

\* A sorted that leaves the list in the order given.
Unsorted(list) == list

\* sorted(list) for a list of strings.
RECURSIVE Sorted(_)
Sorted(list) ==
    IF list = <<>> THEN <<>>
    ELSE LET i == CHOOSE i \in 1..Len(list) :
                      \A j \in 1..Len(list) : ~StrLess(list[j], list[i])
         IN  <<list[i]>> \o Sorted(Remove(list, i))

\* The places (from 0) at which sub occurs in s.
Occurrences(sub, s) ==
    {i \in 0..(Len(s) - Len(sub)) : SubSeq(s, i + 1, i + Len(sub)) = sub}

\* 'sub in s' for strings.
IsInfix(sub, s) == Occurrences(sub, s) # {}

\* s.split(sep)[0]: s up to the first sep, all of s when it holds none.
SplitFirst(s, sep) ==
    LET at == Occurrences(sep, s)
    IN  IF at = {} THEN s
        ELSE SubSeq(s, 1, CHOOSE i \in at : \A j \in at : i <= j)

\* s.split(ch)[-1] and s.rsplit(ch)[-1] for a one-character ch: s after the
\* last ch, all of s when it holds none.
SplitLast(s, ch) ==
    LET at == Occurrences(ch, s)
    IN  IF at = {} THEN s
        ELSE SubSeq(s, (CHOOSE i \in at : \A j \in at : j <= i) + 2, Len(s))

\* s[a:b]
Slice(s, a, b) == SubSeq(s, a + 1, Min(b, Len(s)))

\* int(digits) and str(n) for n >= 0.
RECURSIVE ToInt(_)
ToInt(digits) ==
    IF digits = <<>> THEN 0
    ELSE 10 * ToInt(SubSeq(digits, 1, Len(digits) - 1))
            + (Ord(digits[Len(digits)]) - Ord("0"))

RECURSIVE ToStr(_)
ToStr(n) ==
    IF n < 10 THEN <<Alphabet[Ord("0") + n]>>
    ELSE ToStr(n \div 10) \o <<Alphabet[Ord("0") + (n % 10)]>>

SENSOR_CODES ==
    << <<"N", "3", "9">>, <<"S", "3", "9">>, <<"N", "2", "4">>,
       <<"S", "2", "4">>, <<"N", "1", "2">>, <<"S", "1", "2">>,
       <<"B", "4", "F">>, <<"F", "F">> >>

\* [raised, value]: the pair (sensorCode, sensorCodeWithChannel), or the
\* IndexError of sensorCodeWithChannel[-1] on an empty string.
getSensorCodeInfo(inputFile) ==
    LET inputFileExt  == SplitLast(inputFile, <<".">>)
        inputFileBase == SplitFirst(inputFile, <<".">> \o inputFileExt)
        codeWithChannel == SplitLast(inputFileBase, <<".">>)
    IN  IF codeWithChannel = <<>> THEN [raised |-> TRUE, value |-> <<>>]
        ELSE LET lastLetter == codeWithChannel[Len(codeWithChannel)]
                 sensorCode == IF islower(lastLetter)
                               THEN SubSeq(codeWithChannel, 1,
                                           Len(codeWithChannel) - 1)
                               ELSE codeWithChannel
             IN  [raised |-> FALSE, value |-> <<sensorCode, codeWithChannel>>]

getFloor(sensorCodeText) == SelectSeq(sensorCodeText, isdigit)

\* A getFloorCode that names an upper floor by the sensor's own floor number.
getFloorCodeSameFloor(sensorCodeText) ==
    IF sensorCodeText = <<>> THEN [raised |-> TRUE, value |-> <<>>]
    ELSE IF sensorCodeText[1] = "F"
      THEN [raised |-> FALSE, value |-> <<"G", "F">>]
    ELSE IF sensorCodeText[1] \in {"N", "S"}
      THEN IF getFloor(sensorCodeText) = <<>>
           THEN [raised |-> TRUE, value |-> <<>>]
           ELSE [raised |-> FALSE,
                 value  |-> <<"L">> \o ToStr(ToInt(getFloor(sensorCodeText)))]
    ELSE IF sensorCodeText[1] = "B"
      THEN [raised |-> FALSE, value |-> <<"B">> \o getFloor(sensorCodeText)]
    ELSE [raised |-> TRUE, value |-> <<>>]

\* [raised, value]: the floor code, or the exception: IndexError of
\* sensorCodeText[0] on an empty string, ValueError of int('') for an upper
\* floor code without digits, UnboundLocalError of 'letter' at the return
\* statement when no branch was taken.
getFloorCode(sensorCodeText) ==
    IF sensorCodeText = <<>> THEN [raised |-> TRUE, value |-> <<>>]
    ELSE IF sensorCodeText[1] = "F"
      THEN [raised |-> FALSE, value |-> <<"G", "F">>]
    ELSE IF sensorCodeText[1] \in {"N", "S"}
      THEN IF getFloor(sensorCodeText) = <<>>
           THEN [raised |-> TRUE, value |-> <<>>]
           ELSE [raised |-> FALSE,
                 value  |-> <<"L">> \o ToStr(ToInt(getFloor(sensorCodeText)) + 1)]
    ELSE IF sensorCodeText[1] = "B"
      THEN [raised |-> FALSE, value |-> <<"B">> \o getFloor(sensorCodeText)]
    ELSE [raised |-> TRUE, value |-> <<>>]

\* A getAxis whose dictionary gives X for W.
getAxisWestAsX(codeWithChannel) ==
    IF codeWithChannel = <<>> THEN [raised |-> TRUE, value |-> ""]
    ELSE LET lastLetter == codeWithChannel[Len(codeWithChannel)]
         IN  CASE lastLetter = "x" -> [raised |-> FALSE, value |-> "X"]
               [] lastLetter = "y" -> [raised |-> FALSE, value |-> "Y"]
               [] lastLetter = "z" -> [raised |-> FALSE, value |-> "Z"]
               [] lastLetter = "N" -> [raised |-> FALSE, value |-> "X"]
               [] lastLetter = "W" -> [raised |-> FALSE, value |-> "X"]
               [] lastLetter = "Z" -> [raised |-> FALSE, value |-> "Z"]
               [] OTHER            -> [raised |-> TRUE, value |-> ""]

\* [raised, value]: the axis, or the exception: IndexError of
\* sensorCodeWithChannel[-1] on an empty string, KeyError of dirDict for a
\* last letter it does not hold.
getAxis(codeWithChannel) ==
    IF codeWithChannel = <<>> THEN [raised |-> TRUE, value |-> ""]
    ELSE LET lastLetter == codeWithChannel[Len(codeWithChannel)]
         IN  CASE lastLetter = "x" -> [raised |-> FALSE, value |-> "X"]
               [] lastLetter = "y" -> [raised |-> FALSE, value |-> "Y"]
               [] lastLetter = "z" -> [raised |-> FALSE, value |-> "Z"]
               [] lastLetter = "N" -> [raised |-> FALSE, value |-> "X"]
               [] lastLetter = "W" -> [raised |-> FALSE, value |-> "Y"]
               [] lastLetter = "Z" -> [raised |-> FALSE, value |-> "Z"]
               [] OTHER            -> [raised |-> TRUE, value |-> ""]

\* (UTCHour, timestampText) of a file name or path.
getTimeText(inputFile) ==
    LET filename      == SplitLast(inputFile, <<"/">>)
        timestampText == SplitFirst(filename, <<".">>)
        UTCHour       == Slice(timestampText, 8, 10)
    IN  <<UTCHour, timestampText>>

\* The groups of sortFilesBySensorCode from SENSOR_CODES[k] on: the files
\* whose path holds the code, sorted.
RECURSIVE SortedGroups(_, _)
SortedGroups(inputFileList, k) ==
    IF k > Len(SENSOR_CODES) THEN <<>>
    ELSE Sorted(SelectSeq(inputFileList,
                          LAMBDA f : IsInfix(SENSOR_CODES[k], f)))
            \o SortedGroups(inputFileList, k + 1)

sortFilesBySensorCode(inputFileList) == SortedGroups(inputFileList, 1)

\* The lists list(s) can be for a set s: Python fixes no order.
Enumerations(s) ==
    {u \in [1..Cardinality(s) -> s] :
        \A i, j \in 1..Cardinality(s) : u[i] = u[j] => i = j}

\* The set of time tuples of a list of files.
TimeTuples(inputFileList) ==
    {getTimeText(inputFileList[i]) : i \in 1..Len(inputFileList)}

\* [none, list]: the sorted list, or the None of a function that ends
\* without a return statement.  uniqueTimeTuples is the list made of the set
\* of time tuples, one of Enumerations(TimeTuples(inputFileList)).
sortFiles(inputFileList, uniqueTimeTuples) ==
    LET numHours == Len(uniqueTimeTuples)
    IN  IF numHours = 1
          THEN [none |-> FALSE, list |-> sortFilesBySensorCode(inputFileList)]
        ELSE IF numHours = 2
          THEN LET firstTime ==
                       IF StrLess(uniqueTimeTuples[1][1], uniqueTimeTuples[2][1])
                       THEN uniqueTimeTuples[1][2]
                       ELSE uniqueTimeTuples[2][2]
                   firstHourFileList ==
                       SelectSeq(inputFileList, LAMBDA f : IsInfix(firstTime, f))
                   secondHourFileList ==
                       SelectSeq(inputFileList, LAMBDA f : ~IsInfix(firstTime, f))
               IN  [none |-> FALSE,
                    list |-> sortFilesBySensorCode(firstHourFileList)
                                \o sortFilesBySensorCode(secondHourFileList)]
        ELSE [none |-> TRUE, list |-> <<>>]

---------------------------------------------------------------------------
(* Text files.  The DataFrame convertTxtToDf reads has one column, whose   *)
(* cells are the lines of the file after the header line; a line is the    *)
(* sequence of its characters.                                             *)

\* The conversion of one cell by astype('int32'), which applies int to the
\* string: blanks around it are dropped, a sign may precede the digits, and
\* anything else raises ValueError.
astypeInt32(cell) ==
    LET inked    == {i \in 1..Len(cell) : cell[i] # " "}
        first    == CHOOSE i \in inked : \A j \in inked : i <= j
        last     == CHOOSE i \in inked : \A j \in inked : j <= i
        stripped == IF inked = {} THEN <<>> ELSE SubSeq(cell, first, last)
        signed   == stripped # <<>> /\ stripped[1] \in {"+", "-"}
        digits   == IF signed THEN Tail(stripped) ELSE stripped
        isInt    == /\ digits # <<>>
                    /\ \A i \in 1..Len(digits) :
                          digits[i] \in {"0", "1", "2", "3", "4",
                                         "5", "6", "7", "8", "9"}
    IN  IF isInt
        THEN [raised |-> FALSE,
              value  |-> IF signed /\ stripped[1] = "-"
                         THEN 0 - ToInt(digits) ELSE ToInt(digits)]
        ELSE [raised |-> TRUE, value |-> None]

\* getCleanDf on the lines of a file.  str.split(' ', 1) splits a line at its
\* first space into at most two items; unpacking .str into two names takes
\* item 0, item 1, ... of every line for as long as some line has the item,
\* and raises ValueError unless there are exactly two of them; a line without
\* a second item has NaN for its count, which astype('int32') refuses.
getCleanDf(lines) ==
    LET split(line) ==
            LET spaces == {i \in 1..Len(line) : line[i] = " "}
                at     == CHOOSE i \in spaces : \A j \in spaces : i <= j
            IN  IF spaces = {} THEN <<line>>
                ELSE <<SubSeq(line, 1, at - 1), SubSeq(line, at + 1, Len(line))>>
        items    == [i \in 1..Len(lines) |-> split(lines[i])]
        unpacked == IF lines = <<>> THEN 0
                    ELSE IF \E i \in 1..Len(lines) : Len(items[i]) = 2 THEN 2
                    ELSE 1
        counts   == [i \in 1..Len(lines) |->
                        IF Len(items[i]) = 2 THEN astypeInt32(items[i][2])
                        ELSE [raised |-> TRUE, value |-> None]]
    IN  IF unpacked # 2 \/ \E i \in 1..Len(lines) : counts[i].raised
        THEN [raised |-> TRUE, value |-> None]
        ELSE [raised |-> FALSE,
              value  |-> [timestamp |-> [i \in 1..Len(lines) |-> items[i][1]],
                          count     |-> [i \in 1..Len(lines) |-> counts[i].value]]]

\* The lines of the file whose samples are the counts: line i is the
\* timestamp token of row i, a space and the count.
RawText(counts) ==
    [i \in 1..Len(counts) |->
        Token(i) \o <<" ">>
            \o (IF counts[i] < 0 THEN <<"-">> \o ToStr(0 - counts[i])
                ELSE ToStr(counts[i]))]

---------------------------------------------------------------------------
(* The stats table *)

columnHeaders == <<"Ch", "ID", "Floor", "Axis",
                   "Offset Acc (g)", "Acc (g)", "Vel (cm/s)", "Disp (cm)">>

\* line 634: the four peak columns of the table, columnHeaders[-4:].
statsColumnNames == SubSeq(columnHeaders, Len(columnHeaders) - 3,
                           Len(columnHeaders))

\* lines 1080-1095: the table after StatsTable.__init__, one row per entry of
\* SENSOR_CODES_WITH_CHANNELS; the columns populateStaticColumns does not
\* fill hold NaN.
StatsTableInit ==
    [k \in 1..Len(SENSOR_CODES_WITH_CHANNELS) |->
        [h \in {columnHeaders[i] : i \in 1..Len(columnHeaders)} |->
            CASE h = "Ch"    -> k
              [] h = "ID"    -> SENSOR_CODES_WITH_CHANNELS[k]
              [] h = "Floor" -> getFloorCode(SENSOR_CODES_WITH_CHANNELS[k]).value
              [] h = "Axis"  -> getAxis(SENSOR_CODES_WITH_CHANNELS[k]).value
              [] OTHER       -> NaN]]

\* An updateStatsDf that sets the column in every row.
updateStatsDfWholeColumn(table, id, statsColumnName, value) ==
    [k \in 1..Len(table) |-> [table[k] EXCEPT ![statsColumnName] = value]]

\* An updateStatsDf that enlarges the table with a row for an ID it does not
\* hold.
updateStatsDfAppend(table, id, statsColumnName, value) ==
    IF \E k \in 1..Len(table) : table[k]["ID"] = id
    THEN [k \in 1..Len(table) |->
             IF table[k]["ID"] = id
             THEN [table[k] EXCEPT ![statsColumnName] = value]
             ELSE table[k]]
    ELSE Append(table, [[h \in DOMAIN table[1] |-> NaN]
                           EXCEPT !["ID"] = id, ![statsColumnName] = value])

\* df.loc[df['ID'] == sensorCodeWithChannel, statsColumnName] = value
updateStatsDf(table, id, statsColumnName, value) ==
    [k \in 1..Len(table) |->
        IF table[k]["ID"] = id
        THEN [table[k] EXCEPT ![statsColumnName] = value]
        ELSE table[k]]

\* PrimaryUI.updateStatsTable for a conversion object c: the third entry of
\* each stats tuple goes to the column of the same position.
updateStatsTable(table, c) ==
    LET accOffsetPeakVal     == c.accOffsetStats[3]
        accBandpassedPeakVal == c.accBandpassedStats[3]
        velPeakVal           == c.velStats[3]
        dispPeakVal          == c.dispStats[3]
        t1 == updateStatsDf(table, c.sensorCodeWithChannel,
                            statsColumnNames[1], accOffsetPeakVal)
        t2 == updateStatsDf(t1, c.sensorCodeWithChannel,
                            statsColumnNames[2], accBandpassedPeakVal)
        t3 == updateStatsDf(t2, c.sensorCodeWithChannel,
                            statsColumnNames[3], velPeakVal)
    IN  updateStatsDf(t3, c.sensorCodeWithChannel,
                      statsColumnNames[4], dispPeakVal)

\* StatsTable.getColumnMax: the largest value of the column, NaN when the
\* column holds none.
getColumnMax(table, statsColumnName) ==
    LET filled == {k \in 1..Len(table) : ~IsNaN(table[k][statsColumnName])}
    IN  IF filled = {} THEN NaN
        ELSE table[CHOOSE k \in filled :
                      \A j \in filled : RLeq(table[j][statsColumnName],
                                             table[k][statsColumnName])][statsColumnName]

getStatsMaxValues(table) ==
    [i \in 1..Len(statsColumnNames) |-> getColumnMax(table, statsColumnNames[i])]

---------------------------------------------------------------------------
(* Construction of one Conversion, statement by statement                  *)

VARIABLES
    pc,                     \* the last statement group of __init__ done
    sensorCodeWithChannel,  \* the constructor's argument
    callerDf,               \* the DataFrame object the caller passed in
    df,                     \* self.df
    sensitivity,            \* self.sensitivity
    stats,                  \* accOffsetStats, accBandpassedStats, velStats, dispStats
    integrated,             \* argument and result of the last integrateSeries call
    err,                    \* the exception that was raised
    workingDir,             \* the text files of the working directory
    txtFileList,            \* PrimaryUI.txtFileList
    pairedTxtFileList,      \* PrimaryUI.pairedTxtFileList
    statsTable,             \* PrimaryUI.statsTable.df
    statsColumnMaxValues,   \* PrimaryUI.statsColumnMaxValues
    batchPc,                \* where processUserInput and getResults stand
    position,               \* the loop index of getResults, from 1
    plots,                  \* the plots drawn, in order
    files,                  \* the file names a function is tried on
    calls                   \* the calls made on them, with their results

callVars == <<files, calls>>

batchVars == <<workingDir, txtFileList, pairedTxtFileList, statsTable,
               statsColumnMaxValues, batchPc, position, plots, files, calls>>

vars == <<pc, sensorCodeWithChannel, callerDf, df, sensitivity, stats,
          integrated, err, workingDir, txtFileList, pairedTxtFileList,
          statsTable, statsColumnMaxValues, batchPc, position, plots,
          files, calls>>

\* lines 382-385: the attribute of each peak and the column it is taken from.
StatColumns == [accOffsetStats     |-> "offset_g",
                accBandpassedStats |-> "bandpassed_g",
                velStats           |-> "detrended_velocity_cms",
                dispStats          |-> "highpassed_displacement_cm"]

NoStats == [accOffsetStats |-> None, accBandpassedStats |-> None,
            velStats |-> None, dispStats |-> None]

\* The cleaned DataFrame of a text file holding the given counts.
Frame(counts) == [timestamp |-> [i \in 1..Len(counts) |-> Token(i)],
                  count     |-> counts]

\* Every raw series of at most MaxRaw rows.
RawFrames ==
    UNION { { Frame(counts) : counts \in [1..n -> CountValues] } : n \in 0..MaxRaw }

\* A Conversion constructed on its own, as the tests construct it.
Init ==
    /\ pc = "new"
    /\ sensorCodeWithChannel \in CodeChoices
    /\ callerDf \in RawFrames
    /\ df = None
    /\ sensitivity = None
    /\ stats = NoStats
    /\ integrated = None
    /\ err = "none"
    /\ workingDir = <<>>
    /\ txtFileList = <<>>
    /\ pairedTxtFileList = <<>>
    /\ statsTable = StatsTableInit
    /\ statsColumnMaxValues = None
    /\ batchPc = "none"
    /\ position = 0
    /\ plots = <<>>
    /\ files = {}
    /\ calls = <<>>

\* lines 327-357: the attributes; setSensitivity may raise.
InitAttributes ==
    /\ pc = "new"
    /\ LET s == setSensitivity(sensorCodeWithChannel)
       IN  IF s.raised
           THEN /\ pc' = "raised"
                /\ err' = "ValueError"
                /\ UNCHANGED <<df, sensitivity>>
           ELSE /\ pc' = "attributes"
                /\ df' = callerDf
                /\ sensitivity' = s.value
                /\ err' = err
    /\ UNCHANGED <<sensorCodeWithChannel, callerDf, stats, integrated>>
    /\ UNCHANGED batchVars

\* line 361.  self.df is still the caller's object: the column is added to it.
AddG ==
    /\ pc = "attributes"
    /\ LET g == [i \in 1..Rows(df) |-> convertCountToG(df["count"][i], sensitivity)]
       IN  /\ df' = AssignSeries(df, "g", g)
           /\ callerDf' = AssignSeries(df, "g", g)
    /\ pc' = "g"
    /\ UNCHANGED <<sensorCodeWithChannel, sensitivity, stats, integrated, err>>
    /\ UNCHANGED batchVars

\* line 362
ZeroPad ==
    /\ pc = "g"
    /\ df' = getZeroPaddedDf(df, {"timestamp", "g"}, ModelGeo.zeroPadLength)
    /\ pc' = "padded"
    /\ UNCHANGED <<sensorCodeWithChannel, callerDf, sensitivity, stats, integrated, err>>
    /\ UNCHANGED batchVars

\* line 364
OffsetG ==
    /\ pc = "padded"
    /\ df' = AssignArray(df, "offset_g", Detrend(df["g"]))
    /\ pc' = "offset_g"
    /\ UNCHANGED <<sensorCodeWithChannel, callerDf, sensitivity, stats, integrated, err>>
    /\ UNCHANGED batchVars

\* line 365
AccMs2 ==
    /\ pc = "offset_g"
    /\ df' = AssignSeries(df, "acc_ms2",
                 [i \in 1..Rows(df) |-> convertGToMetric(df["offset_g"][i])])
    /\ pc' = "acc_ms2"
    /\ UNCHANGED <<sensorCodeWithChannel, callerDf, sensitivity, stats, integrated, err>>
    /\ UNCHANGED batchVars

\* line 367
BandpassG ==
    /\ pc = "acc_ms2"
    /\ df' = butterBandpassFilter(df, "offset_g", "bandpassed_g")
    /\ pc' = "bandpassed_g"
    /\ UNCHANGED <<sensorCodeWithChannel, callerDf, sensitivity, stats, integrated, err>>
    /\ UNCHANGED batchVars

\* line 368
BandpassMs2 ==
    /\ pc = "bandpassed_g"
    /\ df' = butterBandpassFilter(df, "acc_ms2", "bandpassed_ms2")
    /\ pc' = "bandpassed_ms2"
    /\ UNCHANGED <<sensorCodeWithChannel, callerDf, sensitivity, stats, integrated, err>>
    /\ UNCHANGED batchVars

\* A Velocity that integrates after the truncation: the series is cut to
\* the window first.
VelocityAfterTruncation ==
    /\ pc = "bandpassed_ms2"
    /\ LET cut == removeExtraneousSamples(df, ModelGeo)
           out == integrateSeries(cut["bandpassed_ms2"])
       IN  /\ integrated' = [input |-> cut["bandpassed_ms2"], output |-> out]
           /\ df' = AssignSeries(cut, "velocity_ms", out)
    /\ pc' = "velocity_ms"
    /\ UNCHANGED <<sensorCodeWithChannel, callerDf, sensitivity, stats, err>>
    /\ UNCHANGED batchVars

\* line 369
Velocity ==
    /\ pc = "bandpassed_ms2"
    /\ LET out == integrateSeries(df["bandpassed_ms2"])
       IN  /\ integrated' = [input |-> df["bandpassed_ms2"], output |-> out]
           /\ df' = AssignSeries(df, "velocity_ms", out)
    /\ pc' = "velocity_ms"
    /\ UNCHANGED <<sensorCodeWithChannel, callerDf, sensitivity, stats, err>>
    /\ UNCHANGED batchVars

\* line 371
RemoveExtraneous ==
    /\ pc = "velocity_ms"
    /\ df' = removeExtraneousSamples(df, ModelGeo)
    /\ pc' = "truncated"
    /\ UNCHANGED <<sensorCodeWithChannel, callerDf, sensitivity, stats, integrated, err>>
    /\ UNCHANGED batchVars

\* line 372
DetrendVelocity ==
    /\ pc = "truncated"
    /\ df' = AssignArray(df, "detrended_velocity_ms", Detrend(df["velocity_ms"]))
    /\ pc' = "detrended_velocity_ms"
    /\ UNCHANGED <<sensorCodeWithChannel, callerDf, sensitivity, stats, integrated, err>>
    /\ UNCHANGED batchVars

\* line 373
VelocityCm ==
    /\ pc = "detrended_velocity_ms"
    /\ df' = AssignSeries(df, "detrended_velocity_cms",
                 [i \in 1..Rows(df) |-> convertMToCm(df["detrended_velocity_ms"][i])])
    /\ pc' = "detrended_velocity_cms"
    /\ UNCHANGED <<sensorCodeWithChannel, callerDf, sensitivity, stats, integrated, err>>
    /\ UNCHANGED batchVars

\* line 375
Displacement ==
    /\ pc = "detrended_velocity_cms"
    /\ LET out == integrateSeries(df["detrended_velocity_ms"])
       IN  /\ integrated' = [input |-> df["detrended_velocity_ms"], output |-> out]
           /\ df' = AssignSeries(df, "displacement_m", out)
    /\ pc' = "displacement_m"
    /\ UNCHANGED <<sensorCodeWithChannel, callerDf, sensitivity, stats, err>>
    /\ UNCHANGED batchVars

\* line 377
DetrendDisplacement ==
    /\ pc = "displacement_m"
    /\ df' = AssignArray(df, "detrended_displacement_m", Detrend(df["displacement_m"]))
    /\ pc' = "detrended_displacement_m"
    /\ UNCHANGED <<sensorCodeWithChannel, callerDf, sensitivity, stats, integrated, err>>
    /\ UNCHANGED batchVars

\* line 378
Highpass ==
    /\ pc = "detrended_displacement_m"
    /\ df' = butterHighpassFilter(df, "detrended_displacement_m", "highpassed_displacement_m")
    /\ pc' = "highpassed_displacement_m"
    /\ UNCHANGED <<sensorCodeWithChannel, callerDf, sensitivity, stats, integrated, err>>
    /\ UNCHANGED batchVars

\* line 379
DisplacementCm ==
    /\ pc = "highpassed_displacement_m"
    /\ df' = AssignSeries(df, "highpassed_displacement_cm",
                 [i \in 1..Rows(df) |-> convertMToCm(df["highpassed_displacement_m"][i])])
    /\ pc' = "highpassed_displacement_cm"
    /\ UNCHANGED <<sensorCodeWithChannel, callerDf, sensitivity, stats, integrated, err>>
    /\ UNCHANGED batchVars

\* lines 382-385: the four peaks; the first getStats that raises ends the
\* construction with the attributes set so far.
Peaks ==
    /\ pc = "highpassed_displacement_cm"
    /\ LET s1 == getStats(df, "offset_g")
           s2 == getStats(df, "bandpassed_g")
           s3 == getStats(df, "detrended_velocity_cms")
           s4 == getStats(df, "highpassed_displacement_cm")
       IN  IF s1.raised
             THEN /\ stats' = stats
                  /\ pc' = "raised" /\ err' = "IndexError"
           ELSE IF s2.raised
             THEN /\ stats' = [stats EXCEPT !.accOffsetStats = s1.value]
                  /\ pc' = "raised" /\ err' = "IndexError"
           ELSE IF s3.raised
             THEN /\ stats' = [stats EXCEPT !.accOffsetStats = s1.value,
                                            !.accBandpassedStats = s2.value]
                  /\ pc' = "raised" /\ err' = "IndexError"
           ELSE IF s4.raised
             THEN /\ stats' = [stats EXCEPT !.accOffsetStats = s1.value,
                                            !.accBandpassedStats = s2.value,
                                            !.velStats = s3.value]
                  /\ pc' = "raised" /\ err' = "IndexError"
           ELSE /\ stats' = [accOffsetStats |-> s1.value,
                             accBandpassedStats |-> s2.value,
                             velStats |-> s3.value,
                             dispStats |-> s4.value]
                /\ pc' = "done" /\ err' = err
    /\ UNCHANGED <<sensorCodeWithChannel, callerDf, df, sensitivity, integrated>>
    /\ UNCHANGED batchVars

---------------------------------------------------------------------------
(* The batch run: processUserInput and getResults of PrimaryUI.  A text    *)
(* file <timestamp>.<station>.<code>.txt is the record of its timestamp    *)
(* (hour and full stamp), its sensor code with channel and its lines.      *)

\* Most files of a working directory.
MaxFiles == 3

\* The number of files at which pairDeviceTxtFiles pairs them: 48 in the code
\* (24 devices, two hours), reduced with the directory.
PairedFileCount == 3

pairedFileCount == 48

\* The 14-digit timestamp of day dd and hour hh of September 2019.
Stamp(dd, hh) ==
    <<"2", "0", "1", "9", "0", "9">> \o dd \o hh \o <<"0", "0", "0", "0">>

\* The path <dir><timestamp>.<code>.<ext>.  The station and device number
\* of the recorder's names hold no sensor code and are left out.
FilePath(dir, stamp, code, ext) == dir \o stamp \o <<".">> \o code \o <<".">> \o ext

txt == <<"t", "x", "t">>

\* The hours of the files and the codes in their names: two codes of the
\* table and one that is not in it.
TimeChoices == { Stamp(<<"2", "6">>, <<"1", "0">>),
                 Stamp(<<"2", "6">>, <<"1", "1">>) }

BatchCodes == { <<"N", "3", "9", "x">>, <<"B", "4", "F", "x">>,
                <<"N", "3", "9", "q">> }

BatchPaths ==
    { FilePath(<<"/", "w", "/">>, t, c, txt) : t \in TimeChoices, c \in BatchCodes }

\* Every directory of at most MaxFiles files: the lines of each path, those
\* of a full recording or of one without samples.
Directories ==
    UNION { [P -> { RawText(<<-1300, 2100, 0, 2100>>), RawText(<<>>) }] :
              P \in {Q \in SUBSET BatchPaths : Cardinality(Q) <= MaxFiles} }

\* The lists pairDeviceTxtFiles appends to pairedTxtFileList when the
\* directory holds 'count' files (48 in the code): for each code of the table the
\* tuples (file, sensorCodeWithChannel) one of whose items is the code.
pairDeviceTxtFiles(fileList, count) ==
    IF Len(fileList) = count
    THEN LET txtFileSensorCodeList ==
                 [i \in 1..Len(fileList) |->
                     <<fileList[i], getSensorCodeInfo(fileList[i]).value[2]>>]
         IN  [k \in 1..Len(SENSOR_CODES_WITH_CHANNELS) |->
                 SelectSeq(txtFileSensorCodeList,
                           LAMBDA f : \/ f[1] = SENSOR_CODES_WITH_CHANNELS[k]
                                      \/ f[2] = SENSOR_CODES_WITH_CHANNELS[k])]
    ELSE <<>>

\* pd.concat([df1, df2]) with the index reset.
Concat(df1, df2) == [c \in DOMAIN df1 |-> df1[c] \o df2[c]]

\* maxVal + maxVal * 0.15
yLimit(maxVal) ==
    IF IsNaN(maxVal) THEN NaN ELSE RAdd(maxVal, RMul(maxVal, RDec(15, 2)))

\* The comparison canvases drawComparisonPlot adds the sensor to.
drawComparisonPlot(code) ==
    IF Contains(code, "N") /\ Contains(code, "x") THEN {"NX"}
    ELSE IF Contains(code, "S") /\ Contains(code, "x") THEN {"SX"}
    ELSE IF Contains(code, "N") /\ Contains(code, "y") THEN {"NY"}
    ELSE IF Contains(code, "S") /\ Contains(code, "y") THEN {"SY"}
    ELSE IF Contains(code, "B") /\ Contains(code, "x") THEN {"SX", "NX"}
    ELSE IF Contains(code, "B") /\ Contains(code, "y") THEN {"SY", "NY"}
    ELSE {}

\* The list getResults loops over.
Items == IF pairedTxtFileList # <<>> THEN pairedTxtFileList ELSE txtFileList

\* PrimaryUI after construction, the submit button about to be clicked on a
\* working directory.
InitBatch ==
    /\ pc = "idle"
    /\ sensorCodeWithChannel = <<>>
    /\ callerDf = None
    /\ df = None
    /\ sensitivity = None
    /\ stats = NoStats
    /\ integrated = None
    /\ err = "none"
    /\ workingDir \in Directories
    /\ txtFileList = <<>>
    /\ pairedTxtFileList = <<>>
    /\ statsTable = StatsTableInit
    /\ statsColumnMaxValues = None
    /\ batchPc = "ready"
    /\ position = 0
    /\ plots = <<>>
    /\ files = {}
    /\ calls = <<>>

\* processUserInput, lines 1064-1066: setTxtFileInfo on the directory as
\* os.listdir lists it, pairDeviceTxtFiles and the entry of getResults.
\* len(None) raises TypeError.
Submit ==
    /\ batchPc = "ready"
    /\ \E listing \in Enumerations(DOMAIN workingDir) :
       \E uniqueTimeTuples \in Enumerations(TimeTuples(listing)) :
          LET sorted == sortFiles(listing, uniqueTimeTuples)
          IN  IF sorted.none
              THEN /\ batchPc' = "crashed"
                   /\ err' = "TypeError"
                   /\ UNCHANGED <<txtFileList, pairedTxtFileList, position>>
              ELSE /\ txtFileList' = sorted.list
                   /\ pairedTxtFileList' =
                          pairedTxtFileList
                             \o pairDeviceTxtFiles(sorted.list, PairedFileCount)
                   /\ batchPc' = "stats"
                   /\ position' = 1
                   /\ err' = err
    /\ UNCHANGED <<pc, sensorCodeWithChannel, callerDf, df, sensitivity, stats,
                   integrated, workingDir, statsTable, statsColumnMaxValues, plots>>
    /\ UNCHANGED callVars

\* getConversionObjectFromOneTxtFile or getConversionObjectFromTwoTxtFiles up
\* to the call of Conversion: each file is read from the working directory
\* and cleaned by ProcessedFromTxtFile, where getCleanDf may raise
\* ValueError; a pair of fewer than two files raises IndexError.
StartConversion ==
    /\ batchPc \in {"stats", "plots"}
    /\ pc = "idle"
    /\ position <= Len(Items)
    /\ IF pairedTxtFileList # <<>>
       THEN LET pair        == Items[position]
                txtFilePair == Sorted([i \in 1..Len(pair) |-> pair[i][1]])
            IN  IF Len(txtFilePair) < 2
                THEN /\ pc' = "raised"
                     /\ err' = "IndexError"
                     /\ UNCHANGED <<sensorCodeWithChannel, callerDf>>
                ELSE LET p1 == getCleanDf(workingDir[txtFilePair[1]])
                         p2 == getCleanDf(workingDir[txtFilePair[2]])
                     IN  IF p1.raised \/ p2.raised
                         THEN /\ pc' = "raised"
                              /\ err' = "ValueError"
                              /\ UNCHANGED <<sensorCodeWithChannel, callerDf>>
                         ELSE /\ pc' = "new"
                              /\ err' = "none"
                              /\ sensorCodeWithChannel' =
                                     getSensorCodeInfo(txtFilePair[1]).value[2]
                              /\ callerDf' = Concat(p1.value, p2.value)
       ELSE LET pObject == getCleanDf(workingDir[Items[position]])
            IN  IF pObject.raised
                THEN /\ pc' = "raised"
                     /\ err' = "ValueError"
                     /\ UNCHANGED <<sensorCodeWithChannel, callerDf>>
                ELSE /\ pc' = "new"
                     /\ err' = "none"
                     /\ sensorCodeWithChannel' =
                            getSensorCodeInfo(Items[position]).value[2]
                     /\ callerDf' = pObject.value
    /\ df' = None
    /\ sensitivity' = None
    /\ stats' = NoStats
    /\ integrated' = None
    /\ UNCHANGED batchVars

\* updateStatsTable, and the end of one round of the first loop.
UpdateStatsTable ==
    /\ batchPc = "stats"
    /\ pc = "done"
    /\ statsTable' =
          updateStatsTable(statsTable,
                           [sensorCodeWithChannel |-> sensorCodeWithChannel,
                            accOffsetStats        |-> stats.accOffsetStats,
                            accBandpassedStats    |-> stats.accBandpassedStats,
                            velStats              |-> stats.velStats,
                            dispStats             |-> stats.dispStats])
    /\ position' = position + 1
    /\ pc' = "idle"
    /\ UNCHANGED <<sensorCodeWithChannel, callerDf, df, sensitivity, stats,
                   integrated, err, workingDir, txtFileList, pairedTxtFileList,
                   statsColumnMaxValues, batchPc, plots>>
    /\ UNCHANGED callVars

\* getStatsMaxValues run in the middle of the first loop.
StatsMaxValuesEarly ==
    /\ batchPc = "stats"
    /\ pc = "idle"
    /\ statsColumnMaxValues' = getStatsMaxValues(statsTable)
    /\ batchPc' = "plots"
    /\ position' = 1
    /\ UNCHANGED <<pc, sensorCodeWithChannel, callerDf, df, sensitivity, stats,
                   integrated, err, workingDir, txtFileList, pairedTxtFileList,
                   statsTable, plots>>
    /\ UNCHANGED callVars

\* The first loop is over: getStatsMaxValues.
StatsMaxValues ==
    /\ batchPc = "stats"
    /\ pc = "idle"
    /\ position > Len(Items)
    /\ statsColumnMaxValues' = getStatsMaxValues(statsTable)
    /\ batchPc' = "plots"
    /\ position' = 1
    /\ UNCHANGED <<pc, sensorCodeWithChannel, callerDf, df, sensitivity, stats,
                   integrated, err, workingDir, txtFileList, pairedTxtFileList,
                   statsTable, plots>>
    /\ UNCHANGED callVars

\* drawResultsPlots and drawComparisonPlot, and the end of one round of the
\* second loop.
DrawPlots ==
    /\ batchPc = "plots"
    /\ pc = "done"
    /\ plots' = Append(plots,
          [sensorCodeWithChannel |-> sensorCodeWithChannel,
           yLimits |-> [i \in 1..Len(statsColumnMaxValues) |->
                           yLimit(statsColumnMaxValues[i])],
           comparison |-> drawComparisonPlot(sensorCodeWithChannel),
           comparisonYLimit |->
               yLimit(statsColumnMaxValues[Len(statsColumnMaxValues)])])
    /\ position' = position + 1
    /\ pc' = "idle"
    /\ UNCHANGED <<sensorCodeWithChannel, callerDf, df, sensitivity, stats,
                   integrated, err, workingDir, txtFileList, pairedTxtFileList,
                   statsTable, statsColumnMaxValues, batchPc>>
    /\ UNCHANGED callVars

\* The second loop is over: the canvases are shown and the reports written.
Finish ==
    /\ batchPc = "plots"
    /\ pc = "idle"
    /\ position > Len(Items)
    /\ batchPc' = "finished"
    /\ UNCHANGED <<pc, sensorCodeWithChannel, callerDf, df, sensitivity, stats,
                   integrated, err, workingDir, txtFileList, pairedTxtFileList,
                   statsTable, statsColumnMaxValues, position, plots>>
    /\ UNCHANGED callVars

\* An exception raised in a loop of getResults: no statement of getResults
\* or processUserInput catches it, and the run ends there.
Propagate ==
    /\ batchPc \in {"stats", "plots"}
    /\ pc = "raised"
    /\ batchPc' = "crashed"
    /\ UNCHANGED <<pc, sensorCodeWithChannel, callerDf, df, sensitivity, stats,
                   integrated, err, workingDir, txtFileList, pairedTxtFileList,
                   statsTable, statsColumnMaxValues, position, plots>>
    /\ UNCHANGED callVars

Next ==
    \/ InitAttributes
    \/ AddG
    \/ ZeroPad
    \/ OffsetG
    \/ AccMs2
    \/ BandpassG
    \/ BandpassMs2
    \/ Velocity
    \/ RemoveExtraneous
    \/ DetrendVelocity
    \/ VelocityCm
    \/ Displacement
    \/ DetrendDisplacement
    \/ Highpass
    \/ DisplacementCm
    \/ Peaks

Spec == Init /\ [][Next]_vars

NextBatch ==
    \/ Submit
    \/ StartConversion
    \/ Next
    \/ UpdateStatsTable
    \/ StatsMaxValues
    \/ DrawPlots
    \/ Finish
    \/ Propagate

SpecBatch == InitBatch /\ [][NextBatch]_vars

---------------------------------------------------------------------------
(* The stats table on its own: updateStatsDf and updateStatsTable called   *)
(* on the table of a new PrimaryUI.                                        *)

\* Most calls made on the table.
MaxUpdates == 2

\* The IDs of the calls: one of the table and one that is not in it.
TableIds == { <<"F", "F", "N">>, <<"N", "3", "9", "q">> }

\* The values written: rounded peaks.
TableValues == { RDec(15, 4), RDec(-7, 4) }

\* The conversion objects updateStatsTable is called with: the stats tuples
\* (index, value, rounded value) of four different peaks.
TableConversions ==
    { [sensorCodeWithChannel |-> id,
       accOffsetStats        |-> <<0, RDec(110004, 8), RDec(11, 4)>>,
       accBandpassedStats    |-> <<1, RDec(-120004, 8), RDec(-12, 4)>>,
       velStats              |-> <<2, RDec(130004, 8), RDec(13, 4)>>,
       dispStats             |-> <<3, RDec(-140004, 8), RDec(-14, 4)>>] :
      id \in TableIds }

InitTable ==
    /\ pc = "idle"
    /\ sensorCodeWithChannel = <<>>
    /\ callerDf = None
    /\ df = None
    /\ sensitivity = None
    /\ stats = NoStats
    /\ integrated = None
    /\ err = "none"
    /\ workingDir = <<>>
    /\ txtFileList = <<>>
    /\ pairedTxtFileList = <<>>
    /\ statsTable = StatsTableInit
    /\ statsColumnMaxValues = None
    /\ batchPc = "table"
    /\ position = 0
    /\ plots = <<>>
    /\ files = {}
    /\ calls = <<>>

\* One call of StatsTable.updateStatsDf with a peak column.
CallUpdateStatsDf ==
    /\ batchPc = "table"
    /\ Len(calls) < MaxUpdates
    /\ \E id \in TableIds, n \in 1..Len(statsColumnNames), value \in TableValues :
          /\ statsTable' = updateStatsDf(statsTable, id, statsColumnNames[n], value)
          /\ calls' = Append(calls, [fn   |-> "updateStatsDf",
                                     args |-> <<id, statsColumnNames[n], value>>])
    /\ UNCHANGED <<pc, sensorCodeWithChannel, callerDf, df, sensitivity, stats,
                   integrated, err, workingDir, txtFileList, pairedTxtFileList,
                   statsColumnMaxValues, batchPc, position, plots, files>>

\* One call of PrimaryUI.updateStatsTable.
CallUpdateStatsTable ==
    /\ batchPc = "table"
    /\ Len(calls) < MaxUpdates
    /\ \E c \in TableConversions :
          /\ statsTable' = updateStatsTable(statsTable, c)
          /\ calls' = Append(calls, [fn |-> "updateStatsTable", args |-> <<c>>])
    /\ UNCHANGED <<pc, sensorCodeWithChannel, callerDf, df, sensitivity, stats,
                   integrated, err, workingDir, txtFileList, pairedTxtFileList,
                   statsColumnMaxValues, batchPc, position, plots, files>>

NextTable ==
    \/ CallUpdateStatsDf
    \/ CallUpdateStatsTable

SpecTable == InitTable /\ [][NextTable]_vars

---------------------------------------------------------------------------
(* The module-level functions on file names, called on their own as the    *)
(* tests call them.                                                        *)

\* Most files of a list that is sorted, and most calls made on it.
MaxList == 3

MaxCalls == 2

\* The files that are sorted: in the directory /w/ two sensors of one hour,
\* one of them also an hour later and at the same hour of the next day, and
\* a file whose code is not one of SENSOR_CODES; in the directory /STAFF/
\* the two sensors of the first hour.
SortPaths ==
    LET w     == <<"/", "w", "/">>
        staff == <<"/", "S", "T", "A", "F", "F", "/">>
        t2610 == Stamp(<<"2", "6">>, <<"1", "0">>)
        t2611 == Stamp(<<"2", "6">>, <<"1", "1">>)
        t2710 == Stamp(<<"2", "7">>, <<"1", "0">>)
        N39x  == <<"N", "3", "9", "x">>
        S39z  == <<"S", "3", "9", "z">>
        N40x  == <<"N", "4", "0", "x">>
    IN  { FilePath(w, t2610, N39x, txt), FilePath(w, t2610, S39z, txt),
          FilePath(w, t2611, N39x, txt), FilePath(w, t2710, N39x, txt),
          FilePath(w, t2610, N40x, txt),
          FilePath(staff, t2610, N39x, txt), FilePath(staff, t2610, S39z, txt) }

\* The file names getSensorCodeInfo is called on: <dir>[<timestamp>.]<code>.<ext>
\* with the extensions of the text and the miniseed files.
InfoPaths ==
    { dir \o prefix \o code \o <<".">> \o ext :
        dir    \in { <<>>, <<"/", "w", "/">>, <<"/", "d", ".", "m", "/">>,
                     <<"/", "d", ".", "t", "x", "t", "/">> },
        prefix \in { <<>>, Stamp(<<"2", "6">>, <<"1", "0">>) \o <<".">> },
        code   \in { <<"N", "3", "9", "x">>, <<"S", "3", "9", "z">>,
                     <<"B", "4", "F", "x">>, <<"B", "4", "F">>,
                     <<"F", "F", "N">>, <<"F", "F", "W">>,
                     <<"N", "3", "9", "q">> },
        ext    \in { txt, <<"m">> } }

\* The list a function returned, if it returned one.
Returned(call) ==
    IF call.fn = "sortFilesBySensorCode" THEN {call.result}
    ELSE IF call.fn = "sortFiles" /\ ~call.result.none THEN {call.result.list}
    ELSE {}

\* The lists the next call can be made on: the files in any order, or the
\* list the last call returned.
Inputs ==
    Enumerations(files)
        \cup (IF calls = <<>> THEN {} ELSE Returned(calls[Len(calls)]))

InitFunctions ==
    /\ pc = "idle"
    /\ sensorCodeWithChannel = <<>>
    /\ callerDf = None
    /\ df = None
    /\ sensitivity = None
    /\ stats = NoStats
    /\ integrated = None
    /\ err = "none"
    /\ workingDir = <<>>
    /\ txtFileList = <<>>
    /\ pairedTxtFileList = <<>>
    /\ statsTable = StatsTableInit
    /\ statsColumnMaxValues = None
    /\ position = 0
    /\ plots = <<>>
    /\ calls = <<>>

InitSort ==
    /\ InitFunctions
    /\ batchPc = "sort"
    /\ files \in {F \in SUBSET SortPaths : Cardinality(F) <= MaxList}

InitInfo ==
    /\ InitFunctions
    /\ batchPc = "info"
    /\ \E f \in InfoPaths : files = {f}

\* One call of sortFiles.  No statement of it raises.
CallSortFiles ==
    /\ batchPc = "sort"
    /\ Len(calls) < MaxCalls
    /\ \E inputFileList \in Inputs :
       \E uniqueTimeTuples \in Enumerations(TimeTuples(inputFileList)) :
          calls' = Append(calls,
                          [fn      |-> "sortFiles",
                           args    |-> <<inputFileList>>,
                           outcome |-> "returned",
                           result  |-> sortFiles(inputFileList, uniqueTimeTuples)])
    /\ UNCHANGED <<pc, sensorCodeWithChannel, callerDf, df, sensitivity, stats,
                   integrated, err, workingDir, txtFileList, pairedTxtFileList,
                   statsTable, statsColumnMaxValues, batchPc, position, plots,
                   files>>

\* One call of sortFilesBySensorCode.
CallSortFilesBySensorCode ==
    /\ batchPc = "sort"
    /\ Len(calls) < MaxCalls
    /\ \E inputFileList \in Inputs :
          calls' = Append(calls,
                          [fn      |-> "sortFilesBySensorCode",
                           args    |-> <<inputFileList>>,
                           outcome |-> "returned",
                           result  |-> sortFilesBySensorCode(inputFileList)])
    /\ UNCHANGED <<pc, sensorCodeWithChannel, callerDf, df, sensitivity, stats,
                   integrated, err, workingDir, txtFileList, pairedTxtFileList,
                   statsTable, statsColumnMaxValues, batchPc, position, plots,
                   files>>

\* The call of getSensorCodeInfo on the file.
CallGetSensorCodeInfo ==
    /\ batchPc = "info"
    /\ calls = <<>>
    /\ \E inputFile \in files :
          LET info == getSensorCodeInfo(inputFile)
          IN  calls' = <<[fn      |-> "getSensorCodeInfo",
                          args    |-> <<inputFile>>,
                          outcome |-> IF info.raised THEN "raised" ELSE "returned",
                          result  |-> info.value]>>
    /\ UNCHANGED <<pc, sensorCodeWithChannel, callerDf, df, sensitivity, stats,
                   integrated, err, workingDir, txtFileList, pairedTxtFileList,
                   statsTable, statsColumnMaxValues, batchPc, position, plots,
                   files>>

NextSort ==
    \/ CallSortFiles
    \/ CallSortFilesBySensorCode

SpecSort == InitSort /\ [][NextSort]_vars

NextInfo == CallGetSensorCodeInfo

SpecInfo == InitInfo /\ [][NextInfo]_vars

---------------------------------------------------------------------------
(* getFloorCode and getAxis called on a sensor code on their own.          *)

\* The tokens the two functions are called on: the codes of the table, the
\* far-field code with lowercase channels, and tokens that are not sensor
\* codes with a channel.
CodeTokens ==
    { SENSOR_CODES_WITH_CHANNELS[k] : k \in 1..Len(SENSOR_CODES_WITH_CHANNELS) }
        \cup { <<"F", "F", "x">>, <<"F", "F", "y">>, <<"F", "F", "z">>,
               <<"N", "9", "9", "y">>, <<"S", "9", "z">>, <<"B", "1", "2", "z">>,
               <<"N", "3", "9", "q">>, <<"B", "4", "F">>, <<"N", "x">>,
               <<"A", "1", "x">>, <<"W", "2", "y">>, <<"x">>, <<"4", "z">>,
               <<>> }

InitCode ==
    /\ InitFunctions
    /\ batchPc = "code"
    /\ \E token \in CodeTokens : files = {token}

\* The call of getFloorCode on the token.
CallGetFloorCode ==
    /\ batchPc = "code"
    /\ \A n \in 1..Len(calls) : calls[n].fn # "getFloorCode"
    /\ \E sensorCodeText \in files :
          LET code == getFloorCode(sensorCodeText)
          IN  calls' = Append(calls,
                          [fn      |-> "getFloorCode",
                           args    |-> <<sensorCodeText>>,
                           outcome |-> IF code.raised THEN "raised" ELSE "returned",
                           result  |-> code.value])
    /\ UNCHANGED <<pc, sensorCodeWithChannel, callerDf, df, sensitivity, stats,
                   integrated, err, workingDir, txtFileList, pairedTxtFileList,
                   statsTable, statsColumnMaxValues, batchPc, position, plots,
                   files>>

\* The call of getAxis on the token.
CallGetAxis ==
    /\ batchPc = "code"
    /\ \A n \in 1..Len(calls) : calls[n].fn # "getAxis"
    /\ \E codeWithChannel \in files :
          LET axis == getAxis(codeWithChannel)
          IN  calls' = Append(calls,
                          [fn      |-> "getAxis",
                           args    |-> <<codeWithChannel>>,
                           outcome |-> IF axis.raised THEN "raised" ELSE "returned",
                           result  |-> axis.value])
    /\ UNCHANGED <<pc, sensorCodeWithChannel, callerDf, df, sensitivity, stats,
                   integrated, err, workingDir, txtFileList, pairedTxtFileList,
                   statsTable, statsColumnMaxValues, batchPc, position, plots,
                   files>>

NextCode ==
    \/ CallGetFloorCode
    \/ CallGetAxis

SpecCode == InitCode /\ [][NextCode]_vars

---------------------------------------------------------------------------
(* getCleanDf called on its own on the lines of a file                     *)

\* Most lines of a file.
MaxLines == 3

\* The lines a file is made of: well formed ones, one with two spaces before
\* the count, one without a count, one with a third item and one whose count
\* is no number.
LineChoices ==
    { <<"t", "1", " ", "5">>, <<"t", "2", " ", "-", "1", "3">>,
      <<"t", "6", " ", " ", "8">>, <<"t", "3">>,
      <<"t", "4", " ", "5", " ", "7">>, <<"t", "5", " ", "x">> }

InitClean ==
    /\ InitFunctions
    /\ batchPc = "clean"
    /\ \E n \in 0..MaxLines : \E lines \in [1..n -> LineChoices] : files = {lines}

\* ProcessedFromTxtFile.getCleanDf on the lines.
CallGetCleanDf ==
    /\ batchPc = "clean"
    /\ calls = <<>>
    /\ \E lines \in files :
          LET cleanDf == getCleanDf(lines)
          IN  calls' = <<[fn      |-> "getCleanDf",
                          args    |-> <<lines>>,
                          outcome |-> IF cleanDf.raised THEN "ValueError"
                                      ELSE "returned",
                          result  |-> cleanDf.value]>>
    /\ UNCHANGED <<pc, sensorCodeWithChannel, callerDf, df, sensitivity, stats,
                   integrated, err, workingDir, txtFileList, pairedTxtFileList,
                   statsTable, statsColumnMaxValues, batchPc, position, plots,
                   files>>

NextClean == CallGetCleanDf

SpecClean == InitClean /\ [][NextClean]_vars

---------------------------------------------------------------------------
(* getConversionObjectFromTwoTxtFiles called on its own on one pair of     *)
(* pairedTxtFileList, as the first loop of getResults calls it.            *)

\* The hours of the two files of a pair.
PairStamps == { Stamp(<<"2", "6">>, <<"1", "0">>),
                Stamp(<<"2", "6">>, <<"2", "3">>),
                Stamp(<<"2", "7">>, <<"0", "0">>) }

\* A pair of two files of one sensor, N39x or B4Fx, of different hours, in
\* either order, each file of one, two or three samples.
InitPair ==
    /\ pc = "idle"
    /\ sensorCodeWithChannel = <<>>
    /\ callerDf = None
    /\ df = None
    /\ sensitivity = None
    /\ stats = NoStats
    /\ integrated = None
    /\ err = "none"
    /\ \E code \in { <<"N", "3", "9", "x">>, <<"B", "4", "F", "x">> } :
       \E s1, s2 \in PairStamps :
       \E text1, text2 \in { RawText(<<-1300>>), RawText(<<2100, 0>>),
                            RawText(<<0, 2100, -1300>>) } :
          LET file1 == FilePath(<<"/", "w", "/">>, s1, code, txt)
              file2 == FilePath(<<"/", "w", "/">>, s2, code, txt)
          IN  /\ s1 # s2
              /\ workingDir = (file1 :> text1) @@ (file2 :> text2)
              /\ txtFileList = <<file1, file2>>
              /\ pairedTxtFileList = << <<<<file1, code>>, <<file2, code>>>> >>
    /\ statsTable = StatsTableInit
    /\ statsColumnMaxValues = None
    /\ batchPc = "stats"
    /\ position = 1
    /\ plots = <<>>
    /\ files = {}
    /\ calls = <<>>

NextPair == StartConversion

SpecPair == InitPair /\ [][NextPair]_vars

---------------------------------------------------------------------------
(* Runs one after the other: the submit button clicked again once          *)
(* getResults has returned.  The directory is that of an event that spans  *)
(* two hours, 48 files that pairDeviceTxtFiles pairs, or holds one file of *)
(* a sensor that is not in the table.                                      *)

\* Most clicks of the submit button.
MaxRuns == 2

\* The 48 paths of an event of two hours: each code of the table at 10h and
\* at 11h.
PairedPaths ==
    [n \in 1..pairedFileCount |->
        FilePath(<<"/", "w", "/">>,
                 IF n <= Len(SENSOR_CODES_WITH_CHANNELS)
                 THEN Stamp(<<"2", "6">>, <<"1", "0">>)
                 ELSE Stamp(<<"2", "6">>, <<"1", "1">>),
                 SENSOR_CODES_WITH_CHANNELS[
                     ((n - 1) % Len(SENSOR_CODES_WITH_CHANNELS)) + 1],
                 txt)]

\* The directories as os.listdir lists them: the 48 files, or the one file
\* of sensor N39q.
RunListings ==
    { PairedPaths,
      <<FilePath(<<"/", "w", "/">>, Stamp(<<"2", "6">>, <<"1", "0">>),
                 <<"N", "3", "9", "q">>, txt)>> }

InitRuns ==
    /\ pc = "idle"
    /\ sensorCodeWithChannel = <<>>
    /\ callerDf = None
    /\ df = None
    /\ sensitivity = None
    /\ stats = NoStats
    /\ integrated = None
    /\ err = "none"
    /\ \E listing \in RunListings :
          workingDir = [f \in {listing[n] : n \in 1..Len(listing)} |->
                           RawText(<<-1300, 2100>>)]
    /\ txtFileList = <<>>
    /\ pairedTxtFileList = <<>>
    /\ statsTable = StatsTableInit
    /\ statsColumnMaxValues = None
    /\ batchPc = "ready"
    /\ position = 0
    /\ plots = <<>>
    /\ files = {}
    /\ calls = <<>>

\* processUserInput, lines 1064-1066, on a first click or on a click after
\* getResults has returned: setTxtFileInfo, pairDeviceTxtFiles and the entry
\* of getResults.  Each click is logged in calls.
SubmitRun ==
    /\ batchPc \in {"ready", "finished"}
    /\ Len(calls) < MaxRuns
    /\ \E listing \in RunListings :
       \E uniqueTimeTuples \in Enumerations(TimeTuples(listing)) :
          /\ {listing[n] : n \in 1..Len(listing)} = DOMAIN workingDir
          /\ LET sorted == sortFiles(listing, uniqueTimeTuples)
             IN  IF sorted.none
                 THEN /\ batchPc' = "crashed"
                      /\ err' = "TypeError"
                      /\ UNCHANGED <<txtFileList, pairedTxtFileList, position>>
                 ELSE /\ txtFileList' = sorted.list
                      /\ pairedTxtFileList' =
                             pairedTxtFileList
                                \o pairDeviceTxtFiles(sorted.list, pairedFileCount)
                      /\ batchPc' = "stats"
                      /\ position' = 1
                      /\ err' = err
    /\ calls' = Append(calls, [fn |-> "processUserInput", args |-> <<>>])
    /\ UNCHANGED <<pc, sensorCodeWithChannel, callerDf, df, sensitivity, stats,
                   integrated, workingDir, statsTable, statsColumnMaxValues,
                   plots, files>>

NextRuns ==
    \/ SubmitRun
    \/ StartConversion
    \/ Next
    \/ UpdateStatsTable
    \/ StatsMaxValues
    \/ DrawPlots
    \/ Finish
    \/ Propagate

SpecRuns == InitRuns /\ [][NextRuns]_vars

---------------------------------------------------------------------------
(* Properties of one Conversion *)

\* C1: integrateSeries is the cumulative trapezoidal rule with dt = 1/fs: for
\* an input x of n >= 1 values the output y has y[0] = 0 and
\* y[i] = y[i-1] + dt*(x[i-1]+x[i])/2 for 1 <= i < n, and y is a function of
\* x and dt alone: y[i] = dt * (x[0] + ... + x[i] - (x[0]+x[i])/2), in the
\* second call of a construction as in the first.
C1_Trapezoid ==
    ("input" \in DOMAIN integrated /\ Len(integrated.input) >= 1) =>
        LET x == integrated.input
            y == integrated.output
        IN  /\ y[1] = RZero
            /\ \A i \in 2..Len(x) :
                  RSub(y[i], y[i - 1])
                     = RMul(dt, RDiv(RAdd(x[i - 1], x[i]), RInt(2)))
            /\ \A i \in 1..Len(x) :
                  y[i] = RMul(dt, RSub(RSum(SubSeq(x, 1, i)),
                                       RDiv(RAdd(x[1], x[i]), RInt(2))))

\* The second integration of a construction, of three values, with a sum
\* that is not zero.
C1_Witness ==
    /\ pc = "displacement_m"
    /\ Len(integrated.input) >= 3
    /\ integrated.input[1] # RZero
    /\ integrated.output[3] # RZero

\* C2: the series integrateSeries returns is as long as its input, for every
\* input, the empty series and a one-element series included.
C2_LengthKept ==
    "input" \in DOMAIN integrated =>
        Len(integrated.output) = Len(integrated.input)

\* C3: after removeExtraneousSamples the working series has exactly
\* (window + zeroPadLength) - ignoredSamples + 1 rows, whatever the length of
\* the raw series.
C3_FullWindow ==
    pc = "truncated" =>
        Rows(df) = (ModelGeo.window + ModelGeo.zeroPadLength)
                      - ModelGeo.ignoredSamples + 1

\* C4: removeExtraneousSamples keeps exactly the rows labelled ignoredSamples
\* to window + zeroPadLength (both included) that the series has, in their
\* order and relabelled from 0: row i afterwards holds, in every column, row
\* ignoredSamples + i of before.
C4_ClosedRange ==
    [][pc = "velocity_ms" =>
          LET first == ModelGeo.ignoredSamples
              last  == Min(ModelGeo.window + ModelGeo.zeroPadLength, Rows(df) - 1)
              kept  == IF last < first THEN 0 ELSE last - first + 1
          IN  /\ DOMAIN df' = DOMAIN df
              /\ \A c \in DOMAIN df :
                    /\ Len(df'[c]) = kept
                    /\ \A i \in 0..(kept - 1) :
                          df'[c][i + 1] = df[c][first + i + 1]]_vars

\* A truncation that drops rows at the head and a row at the tail.
C4_Witness ==
    /\ pc = "truncated"
    /\ Rows(callerDf) = MaxRaw
    /\ Rows(df) = (ModelGeo.window + ModelGeo.zeroPadLength)
                     - ModelGeo.ignoredSamples + 1
    /\ df["g"][1] # RZero

\* C5: getZeroPaddedDf turns a series of n rows into one of
\* n + 2*zeroPadLength rows: the first and the last zeroPadLength entries are
\* 0 in the numeric column and None in the timestamp column, the n entries
\* between them are the input's, in order.  Checked on the construction's
\* pad and, for the same input, on the code's pad of 500.
C5_ZeroPadded ==
    pc = "padded" =>
        LET n == Rows(callerDf)
            p == getZeroPaddedDf(callerDf, {"timestamp", "g"}, zeroPadLength)
        IN  /\ Len(df["g"]) = n + 2 * PadLen
            /\ Len(df["timestamp"]) = n + 2 * PadLen
            /\ \A i \in 1..PadLen :
                  /\ df["g"][i] = RZero
                  /\ df["g"][PadLen + n + i] = RZero
                  /\ df["timestamp"][i] = NoneStr
                  /\ df["timestamp"][PadLen + n + i] = NoneStr
            /\ \A i \in 1..n :
                  /\ df["g"][PadLen + i] = callerDf["g"][i]
                  /\ df["timestamp"][PadLen + i] = callerDf["timestamp"][i]
            /\ Len(p["g"]) = n + 2 * zeroPadLength
            /\ Len(p["timestamp"]) = n + 2 * zeroPadLength
            /\ \A i \in 1..zeroPadLength :
                  /\ p["g"][i] = RZero
                  /\ p["g"][zeroPadLength + n + i] = RZero
                  /\ p["timestamp"][i] = NoneStr
                  /\ p["timestamp"][zeroPadLength + n + i] = NoneStr
            /\ \A i \in 1..n :
                  /\ p["g"][zeroPadLength + i] = callerDf["g"][i]
                  /\ p["timestamp"][zeroPadLength + i] = callerDf["timestamp"][i]

\* A padded series of the longest raw series, its first value not zero.
C5_Witness ==
    /\ pc = "padded"
    /\ Rows(callerDf) = MaxRaw
    /\ callerDf["g"][1] # RZero
    /\ df["g"][PadLen + 1] # RZero

\* C6: getStats takes, of a column's minimum and maximum, the one with the
\* strictly larger absolute value, and the maximum when the two absolute
\* values are equal; so abs(rawValue) = max(abs(min), abs(max)).
C6_LargerOfMinAndMax ==
    pc = "done" =>
        \A name \in DOMAIN StatColumns :
            LET col == df[StatColumns[name]]
                mn  == col[CHOOSE i \in 1..Len(col) :
                              \A j \in 1..Len(col) : RLeq(col[i], col[j])]
                mx  == col[CHOOSE i \in 1..Len(col) :
                              \A j \in 1..Len(col) : RLeq(col[j], col[i])]
                raw == stats[name][2]
            IN  /\ RLess(RAbs(mx), RAbs(mn)) => raw = mn
                /\ RLess(RAbs(mn), RAbs(mx)) => raw = mx
                /\ RAbs(mn) = RAbs(mx) => raw = mx
                /\ RAbs(raw) = IF RLess(RAbs(mx), RAbs(mn)) THEN RAbs(mn)
                                                             ELSE RAbs(mx)

\* A column whose minimum and maximum differ and are equal in absolute
\* value.
C6_Witness ==
    /\ pc = "done"
    /\ \E name \in DOMAIN StatColumns :
          LET col == df[StatColumns[name]]
          IN  \E i, j \in 1..Len(col) :
                 /\ \A k \in 1..Len(col) :
                       RLeq(col[i], col[k]) /\ RLeq(col[k], col[j])
                 /\ col[i] # col[j]
                 /\ RAbs(col[i]) = RAbs(col[j])

\* C7: each of the four peaks [index, rawValue, roundedValue] of a
\* constructed Conversion has abs(rawValue) >= abs(v) for every v of its
\* column, index the first row of the truncated series that holds rawValue
\* (0 <= index < length), and roundedValue = round(rawValue, 4), a whole
\* multiple of 0.0001.
C7_PeakStats ==
    pc = "done" =>
        \A name \in DOMAIN StatColumns :
            LET col     == df[StatColumns[name]]
                index   == stats[name][1]
                raw     == stats[name][2]
                rounded == stats[name][3]
                scaled  == RMul(rounded, RInt(10000))
            IN  /\ Len(stats[name]) = 3
                /\ \A i \in 1..Len(col) : RLeq(RAbs(col[i]), RAbs(raw))
                /\ index \in 0..(Rows(df) - 1)
                /\ col[index + 1] = raw
                /\ \A i \in 1..index : col[i] # raw
                /\ rounded = Round4(raw)
                /\ scaled.d = 1 /\ scaled.e2 >= 0 /\ scaled.e5 >= 0 /\ scaled.eg >= 0

\* A peak that is not in row 0, is held by a later row as well, and that
\* rounding changes.
C7_Witness ==
    /\ pc = "done"
    /\ \E name \in DOMAIN StatColumns :
          LET col == df[StatColumns[name]]
          IN  /\ stats[name][1] > 0
              /\ stats[name][3] # stats[name][2]
              /\ \E i \in (stats[name][1] + 2)..Len(col) : col[i] = stats[name][2]

\* C8: setSensitivity gives 1.25 for the six codes of the table that contain
\* 'F' (B4Fx, B4Fy, B4Fz, FFN, FFW, FFZ), 0.625 for the other codes of the
\* 24-entry table, and raises for a code that is not in the table; the
\* constructor then ends with the error before it has set self.df or touched
\* the series it was given.  The table is gone through where setSensitivity
\* has just returned or raised.
C8_Sensitivity ==
    LET withF == { <<"B", "4", "F", "x">>, <<"B", "4", "F", "y">>,
                   <<"B", "4", "F", "z">>, <<"F", "F", "N">>,
                   <<"F", "F", "W">>, <<"F", "F", "Z">> }
        expected(code) == IF code \in withF THEN RDec(125, 2) ELSE RDec(625, 3)
    IN  /\ pc \in {"attributes", "raised"} =>
              /\ Len(SENSOR_CODES_WITH_CHANNELS) = 24
              /\ \A c \in withF : InList(c, SENSOR_CODES_WITH_CHANNELS)
              /\ \A i \in 1..Len(SENSOR_CODES_WITH_CHANNELS) :
                    setSensitivity(SENSOR_CODES_WITH_CHANNELS[i])
                       = [raised |-> FALSE,
                          value  |-> expected(SENSOR_CODES_WITH_CHANNELS[i])]
        /\ pc # "new" =>
              IF InList(sensorCodeWithChannel, SENSOR_CODES_WITH_CHANNELS)
              THEN /\ err # "ValueError"
                   /\ sensitivity = expected(sensorCodeWithChannel)
              ELSE /\ pc = "raised" /\ err = "ValueError"
                   /\ df = None /\ sensitivity = None /\ stats = NoStats
                   /\ callerDf \in RawFrames

\* A construction for a code outside the table, one with 'F' in it, that
\* has ended with the error, given a series with rows.
C8_Witness ==
    /\ pc = "raised"
    /\ err = "ValueError"
    /\ sensorCodeWithChannel = <<"F", "F", "x">>
    /\ Rows(callerDf) > 0

\* C9: for a count c of the 32-bit signed range and a sensitivity s of 1.25
\* or 0.625, g = convertCountToG(c) satisfies g * 8388608 * s = 2.5 * c
\* exactly; g is 0 for c = 0, has the sign of c, and doubles when the
\* sensitivity is halved.  Checked on the counts of the series and on counts
\* at the ends of the range.
C9_CountToG ==
    pc = "g" =>
        /\ \A i \in 1..Rows(df) :
              LET c == df["count"][i]
                  g == df["g"][i]
              IN  /\ RMul(RMul(g, RInt(8388608)), sensitivity)
                        = RMul(RDec(25, 1), RInt(c))
                  /\ RSign(g) = Sgn(c)
        /\ \A c \in {-2147483647, -8388609, -39527, -1, 0, 1, 8388608, 2147483647} :
              /\ \A s \in {RDec(125, 2), RDec(625, 3)} :
                    /\ RMul(RMul(convertCountToG(c, s), RInt(8388608)), s)
                          = RMul(RDec(25, 1), RInt(c))
                    /\ RSign(convertCountToG(c, s)) = Sgn(c)
              /\ convertCountToG(c, RDec(625, 3))
                    = RMul(RInt(2), convertCountToG(c, RDec(125, 2)))

\* A converted series with a negative and a positive count.
C9_Witness ==
    /\ pc = "g"
    /\ \E i, j \in 1..Rows(df) : df["count"][i] < 0 /\ df["count"][j] > 0
    /\ sensitivity = RDec(625, 3)

\* C24: throughout the construction of a Conversion every stage only adds a
\* new named column: a column of the frame before a stage is a column of the
\* frame after it, and its value at each sample that is retained (the row of
\* the same timestamp token) is the same.  A series so short that the
\* truncation leaves no row has no retained sample.
C24_ColumnsRetained ==
    [][(df # None /\ df' # None) =>
          \A c \in DOMAIN df :
              /\ c \in DOMAIN df'
              /\ Rows(callerDf) + 2 * ModelGeo.zeroPadLength
                        > ModelGeo.ignoredSamples =>
                    \A i \in 1..Rows(df) : \A j \in 1..Rows(df') :
                        (/\ df["timestamp"][i] # NoneStr
                         /\ df'["timestamp"][j] = df["timestamp"][i])
                        => df'[c][j] = df[c][i]
      ]_<<pc, batchPc>>

\* C25: after truncation the retained window still ends with a non-empty
\* segment of the appended zero padding, rows whose timestamp is None, for
\* every raw series at least as long as the window.
C25_TailPadRetained ==
    (pc = "truncated" /\ Rows(callerDf) >= ModelGeo.window) =>
        /\ Rows(df) > 0
        /\ df["timestamp"][Rows(df)] = NoneStr

\* The values of pc in the order of the statements of Conversion.__init__.
StageOrder ==
    <<"new", "attributes", "g", "padded", "offset_g", "acc_ms2", "bandpassed_g",
      "bandpassed_ms2", "velocity_ms", "truncated", "detrended_velocity_ms",
      "detrended_velocity_cms", "displacement_m", "detrended_displacement_m",
      "highpassed_displacement_m", "highpassed_displacement_cm", "done">>

\* C28: the construction of a Conversion runs its stages once each in the
\* fixed order count-to-g, zero padding, detrend, unit conversion, band-pass,
\* velocity integration, truncation, velocity detrend and cm conversion,
\* displacement integration, displacement detrend, high-pass, peak
\* extraction: every step moves to the next stage (or ends with an
\* exception); the samples keep their order; velocity is integrated over the
\* full padded series, before the truncation, and displacement over the
\* truncated one, so that displacement_m[0] = 0 in the final series; and the
\* four peaks are rows of the truncated series.
C28_StageOrder ==
    [][LET padded   == [i \in 1..ModelGeo.zeroPadLength |-> NoneStr]
                           \o callerDf["timestamp"]
                           \o [i \in 1..ModelGeo.zeroPadLength |-> NoneStr]
           retained == Truncate(padded, ModelGeo.ignoredSamples,
                                ModelGeo.window + ModelGeo.zeroPadLength)
       IN  /\ \/ pc' = "raised"
              \/ \E n \in 1..(Len(StageOrder) - 1) :
                    pc = StageOrder[n] /\ pc' = StageOrder[n + 1]
           /\ pc' = "velocity_ms" =>
                 /\ df["timestamp"] = padded
                 /\ df'["timestamp"] = padded
                 /\ integrated'.input = df["bandpassed_ms2"]
                 /\ df'["velocity_ms"] = integrated'.output
                 /\ Len(df'["velocity_ms"]) = Len(padded)
           /\ pc' = "truncated" =>
                 /\ "velocity_ms" \in DOMAIN df
                 /\ "displacement_m" \notin DOMAIN df'
                 /\ df'["timestamp"] = retained
           /\ pc' = "displacement_m" =>
                 /\ integrated'.input = df["detrended_velocity_ms"]
                 /\ Len(integrated'.input) = Len(retained)
                 /\ df'["displacement_m"][1] = RZero
           /\ pc' = "done" =>
                 /\ df' = df
                 /\ df["timestamp"] = retained
                 /\ df["displacement_m"][1] = RZero
                 /\ \A name \in DOMAIN StatColumns :
                       /\ stats'[name][1] \in 0..(Len(retained) - 1)
                       /\ stats'[name][2]
                             = df[StatColumns[name]][stats'[name][1] + 1]
      ]_<<pc, batchPc>>

\* A construction that has ended on a series longer than the window: the
\* truncation has cut samples at both ends, the velocity of the final series
\* does not start at 0 and its displacement does.
C28_Witness ==
    /\ pc = "done"
    /\ Rows(callerDf) > ModelGeo.window
    /\ Rows(df) < Rows(callerDf)
    /\ df["velocity_ms"][1] # RZero
    /\ df["displacement_m"][1] = RZero

---------------------------------------------------------------------------
(* Properties of the batch run *)

\* C10: when the conversion of one sensor fails during getResults, only that
\* sensor's pipeline is aborted and every other sensor of the batch is still
\* converted and recorded in the stats table: once a run over single files
\* has ended, each file with a code of the table and enough samples to leave
\* rows after truncation has its row of the table filled.
C10_FailureIsolated ==
    (batchPc \in {"crashed", "finished"} /\ pairedTxtFileList = <<>>) =>
        \A i \in 1..Len(txtFileList) :
            LET code == getSensorCodeInfo(txtFileList[i]).value[2]
            IN  (/\ InList(code, SENSOR_CODES_WITH_CHANNELS)
                 /\ Len(workingDir[txtFileList[i]])
                       + 2 * ModelGeo.zeroPadLength > ModelGeo.ignoredSamples)
                => \E k \in 1..Len(statsTable) :
                      /\ statsTable[k]["ID"] = code
                      /\ \A n \in 1..Len(statsColumnNames) :
                            ~IsNaN(statsTable[k][statsColumnNames[n]])

\* C11: in every getResults run the column maxima are read only after
\* updateStatsTable has been called for every item of the run, and no plot is
\* drawn before the maxima are stored: statsColumnMaxValues is set only at
\* the end of the first loop, to the maxima of the table as it then is; the
\* table does not change afterwards; and a plot is drawn only with the
\* maxima stored, from those maxima.  Every step of a run changes pc,
\* batchPc or position.
C11_MaximaAfterAllRecorded ==
    [][/\ statsColumnMaxValues' # statsColumnMaxValues =>
             /\ batchPc = "stats"
             /\ position = Len(Items) + 1
             /\ statsColumnMaxValues' = getStatsMaxValues(statsTable)
       /\ batchPc \in {"plots", "finished"} =>
             /\ statsTable' = statsTable
             /\ statsColumnMaxValues' = statsColumnMaxValues
             /\ statsColumnMaxValues = getStatsMaxValues(statsTable)
       /\ plots' # plots =>
             /\ batchPc = "plots"
             /\ plots' = Append(plots, plots'[Len(plots')])
             /\ plots'[Len(plots')].yLimits =
                   [i \in 1..Len(statsColumnNames) |->
                       yLimit(getColumnMax(statsTable, statsColumnNames[i]))]
      ]_<<pc, batchPc, position, plots>>

\* A run over two sensors that has drawn the plots of both, with a maximum
\* in every column.
C11_Witness ==
    /\ batchPc = "finished"
    /\ Len(txtFileList) = 2
    /\ Len(plots) = 2
    /\ \A i \in 1..Len(statsColumnNames) : ~IsNaN(statsColumnMaxValues[i])

\* C27: once every sensor of a run has been recorded, the y-axis limit used
\* for a reported column, columnMax + 0.15 * columnMax, is positive and at
\* least the absolute value of every sensor's rounded peak in that column:
\* every plot is drawn with such a limit for each column.
C27_YLimitCoversPeaks ==
    \A n \in 1..Len(plots) : \A i \in 1..Len(statsColumnNames) :
        LET limit == plots[n].yLimits[i]
        IN  /\ ~IsNaN(limit)
            /\ RLess(RZero, limit)
            /\ \A k \in 1..Len(statsTable) :
                  ~IsNaN(statsTable[k][statsColumnNames[i]]) =>
                      RLeq(RAbs(statsTable[k][statsColumnNames[i]]), limit)

---------------------------------------------------------------------------
(* Properties of the stats table *)

\* C12: updateStatsDf(id, column, value) changes only the cell of the named
\* column in the row whose ID equals id, which becomes value; every other row
\* and every other column (Ch, ID, Floor and Axis among them) is unchanged,
\* and the table is unchanged when no row has that ID.  updateStatsTable
\* writes the four rounded peaks of the conversion object to 'Offset Acc (g)',
\* 'Acc (g)', 'Vel (cm/s)' and 'Disp (cm)' in that correspondence.
C12_OnlyNamedCell ==
    [][calls' # calls =>
         LET call == calls'[Len(calls')]
         IN  /\ Len(statsTable') = Len(statsTable)
             /\ call.fn = "updateStatsDf" =>
                   \A k \in 1..Len(statsTable) :
                   \A i \in 1..Len(columnHeaders) :
                       statsTable'[k][columnHeaders[i]] =
                           IF /\ statsTable[k]["ID"] = call.args[1]
                              /\ columnHeaders[i] = call.args[2]
                           THEN call.args[3]
                           ELSE statsTable[k][columnHeaders[i]]
             /\ call.fn = "updateStatsTable" =>
                   \A k \in 1..Len(statsTable) :
                       IF statsTable[k]["ID"] = call.args[1].sensorCodeWithChannel
                       THEN /\ statsTable'[k]["Offset Acc (g)"] =
                                   call.args[1].accOffsetStats[3]
                            /\ statsTable'[k]["Acc (g)"] =
                                   call.args[1].accBandpassedStats[3]
                            /\ statsTable'[k]["Vel (cm/s)"] =
                                   call.args[1].velStats[3]
                            /\ statsTable'[k]["Disp (cm)"] =
                                   call.args[1].dispStats[3]
                            /\ \A i \in 1..4 :
                                   statsTable'[k][columnHeaders[i]] =
                                       statsTable[k][columnHeaders[i]]
                       ELSE statsTable'[k] = statsTable[k]
      ]_vars

\* A table with a value written by updateStatsDf in one row, after a call
\* for an ID it does not hold.
C12_Witness ==
    /\ batchPc = "table"
    /\ Len(calls) = 2
    /\ calls[1].fn = "updateStatsDf" /\ calls[1].args[1] = <<"N", "3", "9", "q">>
    /\ calls[2].fn = "updateStatsDf" /\ calls[2].args[1] = <<"F", "F", "N">>
    /\ \E k \in 1..Len(statsTable) : statsTable[k]["Vel (cm/s)"] = RDec(15, 4)

\* C13: from construction on and after any sequence of updateStatsDf calls
\* the table has exactly 24 rows, one per entry of SENSOR_CODES_WITH_CHANNELS
\* in that order, with Ch = 1..24 and ID, Floor and Axis as they were
\* populated; a cell of the four numeric columns is blank until a call for
\* the sensor of its row has recorded a value in it.
C13_TableShape ==
    /\ Len(statsTable) = 24
    /\ Len(SENSOR_CODES_WITH_CHANNELS) = 24
    /\ \A k \in 1..Len(statsTable) :
          /\ statsTable[k]["Ch"] = k
          /\ statsTable[k]["ID"] = SENSOR_CODES_WITH_CHANNELS[k]
          /\ statsTable[k]["Floor"] = StatsTableInit[k]["Floor"]
          /\ statsTable[k]["Axis"] = StatsTableInit[k]["Axis"]
          /\ Len(statsTable[k]["Floor"]) >= 2
          /\ statsTable[k]["Axis"] \in {"X", "Y", "Z"}
          /\ \A n \in 1..Len(statsColumnNames) :
                ~IsNaN(statsTable[k][statsColumnNames[n]]) =>
                    \E j \in 1..Len(calls) :
                        \/ /\ calls[j].fn = "updateStatsDf"
                           /\ calls[j].args[1] = statsTable[k]["ID"]
                           /\ calls[j].args[2] = statsColumnNames[n]
                        \/ /\ calls[j].fn = "updateStatsTable"
                           /\ calls[j].args[1].sensorCodeWithChannel =
                                  statsTable[k]["ID"]

\* A table after two calls, one for an ID it does not hold, with a recorded
\* value in one row and the other rows blank.
C13_Witness ==
    /\ batchPc = "table"
    /\ Len(calls) = 2
    /\ \E j \in 1..2 : /\ calls[j].fn = "updateStatsDf"
                        /\ calls[j].args[1] = <<"N", "3", "9", "q">>
    /\ \E k \in 1..Len(statsTable) : ~IsNaN(statsTable[k]["Acc (g)"])
    /\ \E k \in 1..Len(statsTable) :
          \A n \in 1..Len(statsColumnNames) : IsNaN(statsTable[k][statsColumnNames[n]])

---------------------------------------------------------------------------
(* Properties of the functions on file names *)

\* The number of times x stands in the list.
Count(x, list) == Cardinality({i \in 1..Len(list) : list[i] = x})

\* The two lists hold the same elements the same number of times.
IsPermutation(a, b) ==
    /\ Len(a) = Len(b)
    /\ \A i \in 1..Len(a) : Count(a[i], a) = Count(a[i], b)

\* The place in SENSOR_CODES of the sensor code getSensorCodeInfo derives
\* from the file; past its end for a code that is not in it.
Priority(f) ==
    LET code == getSensorCodeInfo(f).value[1]
    IN  IF InList(code, SENSOR_CODES)
        THEN CHOOSE k \in 1..Len(SENSOR_CODES) : SENSOR_CODES[k] = code
        ELSE Len(SENSOR_CODES) + 1

\* The list is grouped by sensor code in the order of SENSOR_CODES, each
\* group ascending by file name.
InPriorityOrder(list) ==
    \A i, j \in 1..Len(list) :
        i < j => \/ Priority(list[i]) < Priority(list[j])
                 \/ /\ Priority(list[i]) = Priority(list[j])
                    /\ ~StrLess(list[j], list[i])

\* The number of distinct timestamp tokens of the argument of a call.
NumHours(call) == Cardinality(TimeTuples(call.args[1]))

\* C14: sortFiles is total: for every list it accepts, one with one or two
\* distinct timestamp tokens, its output is a permutation of its input.
C14_Permutation ==
    \A n \in 1..Len(calls) :
        (calls[n].fn = "sortFiles" /\ NumHours(calls[n]) \in {1, 2}) =>
            /\ calls[n].outcome = "returned"
            /\ ~calls[n].result.none
            /\ IsPermutation(calls[n].result.list, calls[n].args[1])

\* C15: sortFiles and sortFilesBySensorCode are idempotent: called on the
\* list they returned, they return that list.
C15_Idempotent ==
    \A n \in 2..Len(calls) :
        (/\ calls[n].fn = calls[n - 1].fn
         /\ Returned(calls[n - 1]) = {calls[n].args[1]}) =>
            /\ calls[n].result = calls[n - 1].result
            /\ Returned(calls[n]) = {calls[n].args[1]}

\* C16: when all files share one timestamp token, sortFiles returns them
\* grouped by the sensor code getSensorCodeInfo derives, in the order N39,
\* S39, N24, S24, N12, S12, B4F, FF, each group ascending by file name.
C16_OneTokenOrder ==
    \A n \in 1..Len(calls) :
        (calls[n].fn = "sortFiles" /\ NumHours(calls[n]) = 1) =>
            /\ ~calls[n].result.none
            /\ InPriorityOrder(calls[n].result.list)

C18_SignalsError ==
    \A n \in 1..Len(calls) :
        (calls[n].fn = "sortFiles" /\ NumHours(calls[n]) \notin {1, 2}) =>
            calls[n].outcome = "raised"

\* C19: sortFiles is deterministic: two calls on the same files return the
\* same sequence, whatever the order of the input list and of the set of
\* time tuples, equal hour strings of the two tokens included.
C19_Deterministic ==
    \A n, o \in 1..Len(calls) :
        (/\ calls[n].fn = "sortFiles"
         /\ calls[o].fn = "sortFiles"
         /\ IsPermutation(calls[n].args[1], calls[o].args[1])) =>
            calls[n].result = calls[o].result

\* C20: for every file name or path with an extension getSensorCodeInfo
\* returns (code, codeWithChannel), where codeWithChannel is the
\* dot-delimited segment just before the extension and code is
\* codeWithChannel without its last character when that is a lowercase
\* letter, codeWithChannel itself otherwise.
C20_CodeInfo ==
    \A n \in 1..Len(calls) :
        calls[n].fn = "getSensorCodeInfo" =>
            LET inputFile == calls[n].args[1]
                extension == SplitLast(inputFile, <<".">>)
                stem      == SubSeq(inputFile, 1,
                                    Len(inputFile) - Len(extension) - 1)
                segment   == SplitLast(stem, <<".">>)
            IN  /\ calls[n].outcome = "returned"
                /\ calls[n].result[2] = segment
                /\ calls[n].result[1] =
                       IF islower(segment[Len(segment)])
                       THEN SubSeq(segment, 1, Len(segment) - 1)
                       ELSE segment

---------------------------------------------------------------------------
(* Properties of getFloorCode and getAxis *)

\* C21: getFloorCode returns 'GF' for a token starting with 'F', 'L' followed
\* by the floor digits plus one for a token starting with 'N' or 'S' (N39x
\* gives L40), 'B' followed by the floor digits for a token starting with 'B'
\* (B4Fx gives B4), and fails for a token starting with any other character;
\* it also fails for an empty token and for an upper floor token without a
\* digit, which have no floor code.
C21_FloorCode ==
    \A n \in 1..Len(calls) :
        calls[n].fn = "getFloorCode" =>
            LET token  == calls[n].args[1]
                digits == SelectSeq(token, isdigit)
            IN  IF token # <<>> /\ token[1] = "F"
                  THEN calls[n].outcome = "returned" /\ calls[n].result = <<"G", "F">>
                ELSE IF token # <<>> /\ token[1] \in {"N", "S"} /\ digits # <<>>
                  THEN /\ calls[n].outcome = "returned"
                       /\ Head(calls[n].result) = "L"
                       /\ ToInt(Tail(calls[n].result)) = ToInt(digits) + 1
                       /\ (token = <<"N", "3", "9", "x">>
                              => calls[n].result = <<"L", "4", "0">>)
                ELSE IF token # <<>> /\ token[1] = "B"
                  THEN /\ calls[n].outcome = "returned"
                       /\ calls[n].result = <<"B">> \o digits
                       /\ (token = <<"B", "4", "F", "x">>
                              => calls[n].result = <<"B", "4">>)
                ELSE calls[n].outcome = "raised"

\* getFloorCode has failed on a token that starts with none of F, N, S, B.
C21_Witness ==
    /\ batchPc = "code"
    /\ \E n \in 1..Len(calls) :
          /\ calls[n].fn = "getFloorCode"
          /\ calls[n].args[1] = <<"A", "1", "x">>
          /\ calls[n].outcome = "raised"

\* C22: getAxis returns an axis in {X, Y, Z} for every codeWithChannel: for
\* the far-field codes N gives X, W gives Y and Z gives Z, and for every code
\* with a channel x, y or z the result is that letter uppercased.  It returns
\* for every code of the table, and whatever it returns is one of X, Y, Z.
C22_Axis ==
    \A n \in 1..Len(calls) :
        calls[n].fn = "getAxis" =>
            LET code == calls[n].args[1]
                last == code[Len(code)]
            IN  /\ calls[n].outcome = "returned" => calls[n].result \in {"X", "Y", "Z"}
                /\ InList(code, SENSOR_CODES_WITH_CHANNELS) =>
                       calls[n].outcome = "returned"
                /\ (code # <<>> /\ last \in {"x", "y", "z"}) =>
                       /\ calls[n].outcome = "returned"
                       /\ calls[n].result = CASE last = "x" -> "X"
                                              [] last = "y" -> "Y"
                                              [] last = "z" -> "Z"
                /\ (Len(code) = 3 /\ SubSeq(code, 1, 2) = <<"F", "F">>
                       /\ last \in {"N", "W", "Z"}) =>
                       /\ calls[n].outcome = "returned"
                       /\ calls[n].result = CASE last = "N" -> "X"
                                              [] last = "W" -> "Y"
                                              [] last = "Z" -> "Z"

\* getAxis has returned Y for the far-field code FFW.
C22_Witness ==
    /\ batchPc = "code"
    /\ \E n \in 1..Len(calls) :
          /\ calls[n].fn = "getAxis"
          /\ calls[n].args[1] = <<"F", "F", "W">>
          /\ calls[n].result = "Y"

---------------------------------------------------------------------------
(* Properties of getCleanDf *)

\* C23: getCleanDf turns every input row 'timestamp count' into one sample,
\* in input order, splitting on the first space only: the result has exactly
\* the columns 'timestamp' and 'count' and as many rows as the input, the
\* timestamp token is carried through unchanged and the count is the integer
\* value of the remainder; a row that does not split into two tokens, or
\* whose count is not an integer, makes the load fail.
C23_CleanDf ==
    \A n \in 1..Len(calls) :
        calls[n].fn = "getCleanDf" =>
            LET rows      == calls[n].args[1]
                cut(row)  == CHOOSE i \in 1..Len(row) :
                                /\ row[i] = " "
                                /\ \A j \in 1..(i - 1) : row[j] # " "
                rest(row) == SubSeq(row, cut(row) + 1, Len(row))
                good(row) == /\ \E i \in 1..Len(row) : row[i] = " "
                             /\ ~astypeInt32(rest(row)).raised
            IN  IF \A i \in 1..Len(rows) : good(rows[i])
                THEN /\ calls[n].outcome = "returned"
                     /\ DOMAIN calls[n].result = {"timestamp", "count"}
                     /\ Len(calls[n].result["timestamp"]) = Len(rows)
                     /\ Len(calls[n].result["count"]) = Len(rows)
                     /\ \A i \in 1..Len(rows) :
                           /\ calls[n].result["timestamp"][i]
                                 = SubSeq(rows[i], 1, cut(rows[i]) - 1)
                           /\ calls[n].result["count"][i]
                                 = astypeInt32(rest(rows[i])).value
                ELSE calls[n].outcome = "ValueError"

---------------------------------------------------------------------------
(* Properties of getConversionObjectFromTwoTxtFiles *)

\* C29: for a sensor-channel with two files, the series handed to Conversion
\* is the samples of the file with the earlier timestamp token followed by
\* the samples of the file with the later token, each in original order,
\* reindexed, with no sample dropped or duplicated, whatever the order of the
\* two files in the pair.  The token is the 14 digits after the directory:
\* a date of 8 digits and a time of 6.
C29_PairConcatenated ==
    [][(pairedTxtFileList # <<>> /\ pc = "idle" /\ pc' = "new") =>
          LET pair     == pairedTxtFileList[position]
              date(f)  == ToInt(SubSeq(f, 4, 11))
              time(f)  == ToInt(SubSeq(f, 12, 17))
              first    == IF \/ date(pair[1][1]) < date(pair[2][1])
                             \/ /\ date(pair[1][1]) = date(pair[2][1])
                                /\ time(pair[1][1]) < time(pair[2][1])
                          THEN 1 ELSE 2
              rows     == workingDir[pair[first][1]]
                             \o workingDir[pair[3 - first][1]]
          IN  /\ Len(pair) = 2
              /\ Rows(callerDf') = Len(rows)
              /\ Len(callerDf'["count"]) = Len(rows)
              /\ \A i \in 1..Len(rows) :
                    /\ callerDf'["timestamp"][i] = SubSeq(rows[i], 1, 2)
                    /\ callerDf'["count"][i]
                          = astypeInt32(SubSeq(rows[i], 4, Len(rows[i]))).value
      ]_<<pc, batchPc>>

\* A pair that lists the file of 27 September 00h before the file of
\* 26 September 23h, handed to Conversion as the 23h samples followed by the
\* 00h samples.
C29_Witness ==
    /\ pc = "new"
    /\ Len(pairedTxtFileList) = 1
    /\ SubSeq(pairedTxtFileList[1][1][1], 10, 13) = <<"2", "7", "0", "0">>
    /\ SubSeq(pairedTxtFileList[1][2][1], 10, 13) = <<"2", "6", "2", "3">>
    /\ Rows(callerDf) = Len(workingDir[pairedTxtFileList[1][1][1]])
                          + Len(workingDir[pairedTxtFileList[1][2][1]])
    /\ callerDf["count"][1] =
          astypeInt32(SubSeq(workingDir[pairedTxtFileList[1][2][1]][1], 4,
                             Len(workingDir[pairedTxtFileList[1][2][1]][1]))).value
    /\ Len(workingDir[pairedTxtFileList[1][1][1]])
          # Len(workingDir[pairedTxtFileList[1][2][1]])

---------------------------------------------------------------------------
(* Properties of runs one after the other *)

=============================================================================
